---- MODULE Spec2Model ----
(***************************************************************************)
(* Model of the sitemap / HTML-link crawl engine of webCrawlerAnalyzer     *)
(* (the crawl route: normalizeUrl, getFilename, extractInternalLinks,      *)
(* crawlHtmlLinks, crawlSitemap and the POST handler).                     *)
(*                                                                         *)
(* Strings are sequences of tokens.  A URL is written with the tokens      *)
(*   "https://"  the scheme with its "//"                                  *)
(*   "a.com", "b.com"  host labels                                         *)
(*   "/"  the path separator,  "#"  the fragment mark                      *)
(*   anything else: one or more path characters                            *)
(* so that <<"https://","a.com","/","p","/">> is "https://a.com/p/".       *)
(* A source path is a sequence of filenames and "=>" tokens.               *)
(***************************************************************************)
EXTENDS Naturals, Integers, Sequences, FiniteSets, TLC

VARIABLES
    \* ---- the crawl request and its environment
    world,          \* index of the remote site (documents and pages) being crawled
    body,           \* the request body: [sitemapUrl, delay, crawlHtmlLinks]
    \* ---- POST handler locals
    pc,             \* position of the POST handler
    baseDomain,     \* origin of the entry URL
    sitemapUrls,    \* Array.from(globalUrls.keys()) taken before the HTML phase
    crawledCount,   \* seeds handed to crawlHtmlLinks so far
    response,       \* the HTTP response of the handler (NoResponse until it returns)
    \* ---- shared discovery state of one invocation
    globalUrls,     \* Map<string, UrlEntry> in insertion order: sequence of entries
    visitedUrls,    \* Set<string>
    statusLog,      \* string[]
    errorLog,       \* string[]
    \* ---- the chain of pending async calls (innermost last)
    stack,
    \* ---- history of the run (observations only, never read by the program)
    trace,          \* delays and network fetches in the order they were issued
    leafVisits,     \* one record per URL-set document processed
    failures,       \* number of fetches the network made fail so far
    skipLog,        \* the console lines of crawlHtmlLinks' early returns
    htmlCalls,      \* the invocations of crawlHtmlLinks, in order: [url, depth]
    \* ---- the normalizer exercised on its own
    nUrl, nBase, nOnce, nTwice, npc,
    \* ---- a second invocation of the handler in the same process
    parked,         \* the locals of the invocation that is not running now
    turn,           \* the invocation that is running now: 1 or 2
    phase,          \* "alone1", "alone2": one invocation runs; "both": the two interleave
    alone,          \* the responses the two invocations gave when run alone
    mixed,          \* the two invocations have interleaved in mid-crawl
    \* ---- the persistence routes
    store,          \* the Redis database: key -> JSON text
    latest,         \* the successful saves since the last clear, one per sitemapUrl
    lastOp,         \* the last request to a persistence route and its response
    \* ---- the Redis connection handle of the process
    client,         \* the module-level handle: a client, or NoClient for null
    sockets,        \* the clients created so far: whether each is open and ready
    callers,        \* the calls of getRedisClient in progress, one per caller
    calls           \* what the calls so far did, in order

vars == << world, body, pc, baseDomain, sitemapUrls, crawledCount, response,
           globalUrls, visitedUrls, statusLog, errorLog, stack,
           trace, leafVisits, failures, skipLog, htmlCalls,
           nUrl, nBase, nOnce, nTwice, npc,
           parked, turn, phase, alone, mixed,
           store, latest, lastOp,
           client, sockets, callers, calls >>

crawlVars == << world, body, pc, baseDomain, sitemapUrls, crawledCount, response,
                globalUrls, visitedUrls, statusLog, errorLog, stack,
                trace, leafVisits, failures, skipLog, htmlCalls >>

normVars == << nUrl, nBase, nOnce, nTwice, npc >>

pairVars == << parked, turn, phase, alone, mixed >>

storeVars == << store, latest, lastOp >>

clientVars == << client, sockets, callers, calls >>

\* what a step of the crawl leaves alone
asideVars == << normVars, pairVars, storeVars, clientVars >>

-----------------------------------------------------------------------------
(* Bounds of the model *)

\* longest input string (in tokens) given to the normalizer on its own
MaxLen == 6

\* fetches of existing documents that the network may make fail in one crawl
MaxFailures == 1

\* deepest nesting of crawlSitemap calls followed in a crawl
MaxNesting == 5

\* number of calls of getRedisClient followed
MaxCalls == 4

\* number of times an open connection is lost
MaxClosures == 1

-----------------------------------------------------------------------------------------------------------------------------------------------------
(* Strings *)

\* null, and the empty string: both are falsy, and every test the code makes
\* on a returned string is a truthiness test
Null == << >>

Last(s) == s[Len(s)]

Front(s) == SubSeq(s, 1, Len(s) - 1)

Min(S) == CHOOSE x \in S : \A y \in S : x <= y

Max(S) == CHOOSE x \in S : \A y \in S : x >= y

\* the least element of hits, or otherwise when there is none
FirstOf(hits, otherwise) == IF hits = {} THEN otherwise ELSE Min(hits)

\* index of the first token of s from position i on that is in T, or Len(s)+1
FirstIn(s, i, T) == FirstOf({ j \in i..Len(s) : s[j] \in T }, Len(s) + 1)

\* index of the first token of s from position i on that is not "/", or Len(s)+1
SkipSlashes(s, i) == FirstOf({ j \in i..Len(s) : s[j] # "/" }, Len(s) + 1)

\* index of the last "/" of a pathname (a pathname always starts with one)
LastSlash(pathname) == Max({ i \in 1..Len(pathname) : pathname[i] = "/" })

\* String.prototype.trim
Trim(s) ==
    SubSeq(s, FirstOf({ i \in 1..Len(s) : s[i] # " " }, Len(s) + 1),
              IF \E i \in 1..Len(s) : s[i] # " "
              THEN Max({ i \in 1..Len(s) : s[i] # " " }) ELSE 0)

\* a string with something in it besides white space: s && s.trim()
NotBlank(s) == s # << >> /\ \E i \in 1..Len(s) : s[i] # " "

-----------------------------------------------------------------------------
(* The WHATWG URL object, as far as the crawl uses it *)

Scheme == "https://"

\* the value of a URL constructor call that throws
Invalid == [ok |-> FALSE, origin |-> << >>, pathname |-> << >>,
            hasFragment |-> FALSE, fragment |-> << >>]

\* a parsed URL
Url(origin, pathname, hasFragment, fragment) ==
    [ok |-> TRUE, origin |-> origin, pathname |-> pathname,
     hasFragment |-> hasFragment, fragment |-> fragment]

\* the text after the authority, with its first "#" at position h: an
\* empty path is "/"
PathAndFragmentAt(origin, rest, h) ==
    Url(origin, IF h = 1 THEN <<"/">> ELSE SubSeq(rest, 1, h - 1),
        h <= Len(rest), SubSeq(rest, h + 1, Len(rest)))

\* the URL of an origin and the text after the authority
OnOrigin(origin, rest) == PathAndFragmentAt(origin, rest, FirstIn(rest, 1, {"#"}))

\* the URL of a host and the text after it; no host, or a second scheme in
\* the host, is a failure
HostAndRest(host, rest) ==
    IF host = << >> \/ \E i \in 1..Len(host) : host[i] = Scheme
    THEN Invalid
    ELSE OnOrigin(<<Scheme>> \o host, rest)

\* the authority starts at a and ends before e
AuthorityBetween(s, a, e) == HostAndRest(SubSeq(s, a, e - 1), SubSeq(s, e, Len(s)))

\* the authority starts at a and runs to the next "/" or "#"
AuthorityAt(s, a) == AuthorityBetween(s, a, FirstIn(s, a, {"/", "#"}))

\* the text from position from on, after a scheme or a leading "//": further
\* slashes are skipped, then comes the host
ParseAuthority(s, from) == AuthorityAt(s, SkipSlashes(s, from))

\* new URL(url)
ParseAbsolute(url) ==
    IF url # << >> /\ Head(url) = Scheme THEN ParseAuthority(url, 2) ELSE Invalid

\* a path (and fragment) resolved against a parsed base: a path that starts
\* with "/" replaces the base's path, another one its last segment
ResolvePath(url, b) ==
    OnOrigin(b.origin,
             IF Head(url) = "/" THEN url
             ELSE SubSeq(b.pathname, 1, LastSlash(b.pathname)) \o url)

\* a reference that has no scheme, resolved against a parsed base
Resolve(url, b) ==
    IF ~b.ok THEN Invalid
    ELSE IF url = << >> THEN [b EXCEPT !.hasFragment = FALSE, !.fragment = << >>]
    ELSE IF Head(url) = "#"
         THEN [b EXCEPT !.hasFragment = TRUE, !.fragment = Tail(url)]
    ELSE IF Len(url) >= 2 /\ url[1] = "/" /\ url[2] = "/"
         THEN ParseAuthority(url, 3)
    ELSE ResolvePath(url, b)

\* new URL(url, baseUrl)
ParseRelative(url, baseUrl) ==
    IF url # << >> /\ Head(url) = Scheme THEN ParseAuthority(url, 2)
    ELSE Resolve(url, ParseAbsolute(baseUrl))

\* URL.href
Href(u) ==
    u.origin \o u.pathname \o (IF u.hasFragment THEN <<"#">> \o u.fragment ELSE << >>)

\* the test of the trailing slash: pathname.length > 1 && pathname.endsWith('/')
HasTrailingSlash(pathname) == Len(pathname) > 1 /\ Last(pathname) = "/"

\* the pathname after the trailing-slash step
StripTrailingSlash(pathname) ==
    IF HasTrailingSlash(pathname) THEN Front(pathname) ELSE pathname

\* the body of normalizeUrl's try block on the constructed URL object
NormalizedHref(urlObj) ==
    IF ~urlObj.ok THEN Null
    ELSE Href(Url(urlObj.origin, StripTrailingSlash(urlObj.pathname), FALSE, << >>))

\* normalizeUrl(url, baseUrl?): baseUrl = Null when it is not given
normalizeUrl(url, baseUrl) ==
    NormalizedHref(IF baseUrl # Null THEN ParseRelative(url, baseUrl)
                   ELSE ParseAbsolute(url))

\* the last part of pathname.split('/'), or 'sitemap.xml' when it is empty
LastPart(pathname, cut) ==
    IF cut = Len(pathname) THEN <<"sitemap.xml">>
    ELSE SubSeq(pathname, cut + 1, Len(pathname))

\* the body of getFilename's try block on the constructed URL object
FilenameOf(urlObj) ==
    IF ~urlObj.ok THEN <<"sitemap.xml">>
    ELSE LastPart(urlObj.pathname, LastSlash(urlObj.pathname))

\* getFilename(url)
getFilename(url) == FilenameOf(ParseAbsolute(url))

\* the body of isInternalUrl's try block on the constructed URL object
HasOrigin(urlObj, domain) == urlObj.ok /\ urlObj.origin = domain

\* an origin test that accepts every URL that parses
IsInternalAlways(url, domain) == ParseAbsolute(url).ok

\* isInternalUrl(url, baseDomain)
isInternalUrl(url, domain) == HasOrigin(ParseAbsolute(url), domain)

-----
(* Program constants *)

\* default of the request's delay field, in milliseconds
DefaultDelay == 500

\* maxDepth passed by the POST handler to crawlHtmlLinks
MaxDepth == 10

\* a progress line is logged every so many seeds
ProgressEvery == 10

-----------------------------------------------------------------------------
(* The remote sites the crawl runs against.  An XML entry is the value the  *)
(* XML parser gives for one <sitemap> or <url> element:                     *)
(*   shape "string"  the element parsed to a plain string                   *)
(*   shape "loc"     an object with a string loc                            *)
(*   shape "attr"    an object with a string '@_loc'                        *)
(*   shape "nested"  an object with url.loc                                 *)
(*   shape "locobj"  an object whose loc is itself an object                *)
(*   shape "none"    an object with none of these                           *)

A == <<Scheme, "a.com">>

B == <<Scheme, "b.com">>

Loc(u) == [shape |-> "loc", val |-> u]

NoDoc == [root |-> "none", entries |-> << >>]

NoPage == [exists |-> FALSE, contentType |-> << >>, hrefs |-> << >>]

Html(hrefs) == [exists |-> TRUE, contentType |-> <<"text/html">>, hrefs |-> hrefs]

Worlds == {"tree", "leaf", "chain", "deep", "ring", "shortcut", "bare"}

\* names of the pages of the chain site
ChainName == << "c0", "c1", "c2", "c3", "c4", "c5", "c6", "c7", "c8", "c9",
                "c10", "c11", "c12", "c13", "c14", "c15", "c16", "c17" >>

\* number of pages of the chain site: five more than the depth limit
ChainLen == MaxDepth + 5

ChainUrl(k) == A \o <<"/", ChainName[k]>>

\* The sites: "tree" is an index with leaves, a malformed entry, an
\* unrecognized document and a missing one; "leaf" is a single URL set served
\* at a path without filename; "chain" is a URL set with one seed and pages
\* linked in a row; "deep" is an index of an index of a leaf; "ring" is an
\* index whose child is an index that refers back to it; "shortcut" is a URL
\* set with one seed whose page links to the first and to the last page of a
\* row of pages as long as the depth limit; "bare" is an index of a URL set
\* without entries, an index without entries, a URL set that lists a page
\* of the site and one of another origin, and a URL set that lists nothing new.

\* the entry URL a client would give for each site
EntryUrl(w) ==
    CASE w = "tree"  -> A \o <<"/", "root.xml">>
      [] w = "leaf"  -> A \o <<"/">>
      [] w = "chain" -> A \o <<"/", "sitemap.xml">>
      [] w = "deep"  -> A \o <<"/", "index.xml">>
      [] w = "ring"  -> A \o <<"/", "ring.xml">>
      [] w = "shortcut" -> A \o <<"/", "short.xml">>
      [] w = "bare"  -> A \o <<"/", "bare.xml">>

\* the parsed XML document served at url, NoDoc when there is none
SitemapDoc(w, url) ==
    CASE w = "tree" /\ url = A \o <<"/", "root.xml">> ->
            [root |-> "sitemapindex",
             entries |-> << Loc(A \o <<"/", "a.xml">>),
                            [shape |-> "none", val |-> << >>],
                            Loc(A \o <<"/", "sub", "/", "b.xml">>),
                            Loc(A \o <<"/", "c.xml">>),
                            Loc(A \o <<"/", "gone.xml">>),
                            Loc(A \o <<"/", "a.xml">>) >>]
      [] w = "tree" /\ url = A \o <<"/", "a.xml">> ->
            [root |-> "urlset",
             entries |-> << Loc(A \o <<"/", "p1">>),
                            [shape |-> "locobj", val |-> << >>],
                            Loc(A \o <<"/", "p2", "/">>) >>]
      [] w = "tree" /\ url = A \o <<"/", "sub", "/", "b.xml">> ->
            [root |-> "urlset",
             entries |-> << Loc(A \o <<"/", "p3">>),
                            Loc(A \o <<"/", "p1">>),
                            [shape |-> "string", val |-> B \o <<"/", "q">>] >>]
      [] w = "tree" /\ url = A \o <<"/", "c.xml">> ->
            [root |-> "html", entries |-> << >>]
      [] w = "leaf" /\ url = A \o <<"/">> ->
            [root |-> "urlset",
             entries |-> << [shape |-> "attr", val |-> A \o <<"/", "home">>],
                            [shape |-> "nested", val |-> A \o <<"/", "home", "#", "x">>],
                            Loc(<<"about">>),
                            Loc(A \o <<"/", "docs", "/">>) >>]
      [] w = "chain" /\ url = A \o <<"/", "sitemap.xml">> ->
            [root |-> "urlset", entries |-> << Loc(ChainUrl(1)) >>]
      [] w = "deep" /\ url = A \o <<"/", "index.xml">> ->
            [root |-> "sitemapindex",
             entries |-> << Loc(A \o <<"/", "l1", "/", "mid.xml">>),
                            Loc(A \o <<"/", "top.xml">>) >>]
      [] w = "deep" /\ url = A \o <<"/", "l1", "/", "mid.xml">> ->
            [root |-> "sitemapindex",
             entries |-> << Loc(A \o <<"/", "l1", "/", "l2", "/", "leaf.xml">>) >>]
      [] w = "deep" /\ url = A \o <<"/", "l1", "/", "l2", "/", "leaf.xml">> ->
            [root |-> "urlset", entries |-> << Loc(A \o <<"/", "x">>) >>]
      [] w = "deep" /\ url = A \o <<"/", "top.xml">> ->
            [root |-> "urlset",
             entries |-> << Loc(A \o <<"/", "x">>), Loc(A \o <<"/", "y">>) >>]
      [] w = "ring" /\ url = A \o <<"/", "ring.xml">> ->
            [root |-> "sitemapindex", entries |-> << Loc(A \o <<"/", "back.xml">>) >>]
      [] w = "ring" /\ url = A \o <<"/", "back.xml">> ->
            [root |-> "sitemapindex", entries |-> << Loc(A \o <<"/", "ring.xml">>) >>]
      [] w = "shortcut" /\ url = A \o <<"/", "short.xml">> ->
            [root |-> "urlset", entries |-> << Loc(ChainUrl(1)) >>]
      [] w = "bare" /\ url = A \o <<"/", "bare.xml">> ->
            [root |-> "sitemapindex",
             entries |-> << Loc(A \o <<"/", "none.xml">>),
                            Loc(A \o <<"/", "void.xml">>),
                            Loc(A \o <<"/", "full.xml">>),
                            Loc(A \o <<"/", "again.xml">>) >>]
      [] w = "bare" /\ url = A \o <<"/", "none.xml">> ->
            [root |-> "urlset", entries |-> << >>]
      [] w = "bare" /\ url = A \o <<"/", "void.xml">> ->
            [root |-> "sitemapindex", entries |-> << >>]
      [] w = "bare" /\ url = A \o <<"/", "full.xml">> ->
            [root |-> "urlset",
             entries |-> << Loc(A \o <<"/", "x">>), Loc(B \o <<"/", "q", "/">>) >>]
      [] w = "bare" /\ url = A \o <<"/", "again.xml">> ->
            [root |-> "urlset", entries |-> << Loc(A \o <<"/", "x">>) >>]
      [] OTHER -> NoDoc

\* the page served at url, NoPage when there is none
PageDoc(w, url) ==
    CASE w = "tree" /\ url = A \o <<"/", "p1">> ->
            Html(<< <<"#", "top">>, <<"/", "p2">>, B \o <<"/", "q">>,
                    <<"/", "p4", "/", "/">>, <<"p5">>, <<"/", "p2">> >>)
      [] w = "tree" /\ url = A \o <<"/", "p2">> ->
            Html(<< A \o <<"/", "p1">>, <<"/", "p4">> >>)
      [] w = "tree" /\ url = A \o <<"/", "p3">> ->
            [exists |-> TRUE, contentType |-> <<"application/pdf">>, hrefs |-> << >>]
      [] w = "tree" /\ url = A \o <<"/", "p4">> ->
            Html(<< >>)
      [] w = "tree" /\ url = B \o <<"/", "q">> ->
            Html(<< <<"/", "r">>, A \o <<"/", "p6">> >>)
      [] w = "tree" /\ url = A \o <<"/", "p6">> ->
            Html(<< B \o <<"/", "q">> >>)
      [] w = "leaf" /\ url = A \o <<"/", "home">> ->
            Html(<< A \o <<"/", "home">>, <<"#">>, <<"/", "home", "/">> >>)
      [] w = "leaf" /\ url = A \o <<"/", "docs">> ->
            Html(<< <<"/", "home">>, <<"/", "/", "b.com", "/", "q">>,
                    <<"/", "guide">> >>)
      [] w = "leaf" /\ url = A \o <<"/", "guide">> ->
            Html(<< <<"/", "file.pdf">> >>)
      [] w = "leaf" /\ url = A \o <<"/", "file.pdf">> ->
            [exists |-> TRUE, contentType |-> <<"application/pdf">>,
             hrefs |-> << <<"/", "hidden">> >>]
      [] w = "leaf" /\ url = A \o <<"/", "hidden">> ->
            Html(<< >>)
      [] w = "chain" /\ \E k \in 1..ChainLen : url = ChainUrl(k) ->
            LET k == CHOOSE j \in 1..ChainLen : url = ChainUrl(j)
            IN  Html(IF k < ChainLen THEN << <<"/", ChainName[k + 1]>> >> ELSE << >>)
      [] w = "shortcut" /\ url = ChainUrl(1) ->
            Html(<< <<"/", ChainName[2]>>, <<"/", ChainName[MaxDepth]>> >>)
      [] w = "shortcut" /\ \E k \in 2..MaxDepth : url = ChainUrl(k) ->
            LET k == CHOOSE j \in 2..MaxDepth : url = ChainUrl(j)
            IN  Html(<< <<"/", ChainName[k + 1]>> >>)
      [] w = "shortcut" /\ url = ChainUrl(MaxDepth + 1) ->
            Html(<< >>)
      [] w = "bare" /\ url = A \o <<"/", "x">> ->
            Html(<< B \o <<"/", "q">>, <<"/", "y">> >>)
      [] w = "bare" /\ url = A \o <<"/", "y">> ->
            Html(<< >>)
      [] w = "bare" /\ url = B \o <<"/", "q">> ->
            Html(<< <<"/", "z">>, A \o <<"/", "x">> >>)
      [] OTHER -> NoPage

\* the request bodies a client may send for a site; json is whether
\* request.json() gives an object, urlType is typeof sitemapUrl
Bodies(w) ==
    [ json : {TRUE}, urlType : {"string"}, sitemapUrl : {EntryUrl(w)},
      delay : {0, DefaultDelay}, crawlHtmlLinks : BOOLEAN ]
    \cup
    [ json : {TRUE}, urlType : {"string"},
      sitemapUrl : {<< >>, <<"a.com", "/", "root.xml">>, <<"/", "root.xml">>},
      delay : {DefaultDelay}, crawlHtmlLinks : {TRUE} ]
    \cup
    [ json : {TRUE}, urlType : {"undefined", "number"}, sitemapUrl : {<< >>},
      delay : {DefaultDelay}, crawlHtmlLinks : {TRUE} ]
    \cup
    [ json : {FALSE}, urlType : {"undefined"}, sitemapUrl : {<< >>},
      delay : {DefaultDelay}, crawlHtmlLinks : {FALSE} ]

-----------------------------------------------------------------------------
(* Map<string, UrlEntry>: a sequence of entries in insertion order *)

MapKeys(map) == [ i \in 1..Len(map) |-> map[i].url ]

MapHas(map, url) == \E i \in 1..Len(map) : map[i].url = url

MapGet(map, url) == map[CHOOSE i \in 1..Len(map) : map[i].url = url]

\* Map.prototype.set: a present key keeps its position and takes the new value
MapSet(map, url, entry) ==
    IF MapHas(map, url)
    THEN [ i \in 1..Len(map) |-> IF map[i].url = url THEN entry ELSE map[i] ]
    ELSE Append(map, entry)

\* [...new Set(links)]: first occurrences, in order
AddNew(seen, x) ==
    IF \E i \in 1..Len(seen) : seen[i] = x THEN seen ELSE Append(seen, x)

RECURSIVE Dedup(_)
Dedup(s) == IF s = << >> THEN << >> ELSE AddNew(Dedup(Front(s)), Last(s))

-----------------------------------------------------------------------------
(* Frames of the pending calls *)

Frame(fn, url, sourcePath, chain, depth) ==
    [ fn |-> fn, pc |-> "enter", url |-> url, sourcePath |-> sourcePath,
      chain |-> chain, currentDepth |-> depth, normalizedUrl |-> Null,
      items |-> << >>, i |-> 1 ]

Top == stack[Len(stack)]

Running(fn, at) == stack # << >> /\ Top.fn = fn /\ Top.pc = at

\* the innermost call returns to its caller
Return == stack' = Front(stack)

\* the innermost call moves on
Goto(f) == stack' = [stack EXCEPT ![Len(stack)] = f]

\* the innermost call moves on and awaits a call of its own
\* a call that is not awaited: the caller goes on, the callee runs later
CallDetached(f, callee) == stack' = <<callee>> \o [stack EXCEPT ![Len(stack)] = f]

Call(f, callee) == stack' = Append([stack EXCEPT ![Len(stack)] = f], callee)

DelayEvent(f) == [op |-> "delay", by |-> f.fn, url |-> f.url, depth |-> f.currentDepth]

FetchEvent(f, url) == [op |-> "fetch", by |-> f.fn, url |-> url, depth |-> f.currentDepth]

-----------------------------------------------------------------------------------------------------------------------------------------------------
(* crawlSitemap *)

\* extractUrl(entry): the first structure that gives a string, else null
extractUrl(entry) ==
    IF entry.shape \in {"string", "loc", "attr", "nested"} THEN entry.val ELSE Null

\* a source path built leaf first
NewSourcePathReversed(sourcePath, nestedFilename) ==
    IF NotBlank(sourcePath)
    THEN nestedFilename \o <<"=>">> \o sourcePath
    ELSE nestedFilename

\* a source path joined to whatever was passed in, empty or not
NewSourcePathAlwaysJoined(sourcePath, nestedFilename) ==
    sourcePath \o <<"=>">> \o nestedFilename

\* the source path handed to a nested sitemap
NewSourcePath(sourcePath, nestedFilename) ==
    IF NotBlank(sourcePath)
    THEN sourcePath \o <<"=>">> \o nestedFilename
    ELSE nestedFilename

\* the source path a URL set records for its URLs: the one passed in, else
\* the sitemap's own filename, else 'sitemap.xml'
CurrentSourcePath(sourcePath, filename) ==
    IF NotBlank(sourcePath) THEN Trim(sourcePath)
    ELSE IF NotBlank(filename) THEN filename
    ELSE IF filename # << >> THEN filename
    ELSE <<"sitemap.xml">>

\* the source stored with a new URL of a URL set
FinalSource(currentSourcePath, filename) ==
    IF NotBlank(currentSourcePath) THEN Trim(currentSourcePath)
    ELSE IF filename # << >> THEN filename
    ELSE <<"sitemap.xml">>

\* a URL set that stores every URL it lists, present or not
SitemapAddsAlways(map, url) == TRUE

\* whether the URL set adds this URL: only a URL the map does not hold
SitemapAddsUrl(map, url) == ~MapHas(map, url)

\* one entry of a URL set, url being what extractUrl gave for it; st is
\* [map, log, urlCount]
ProcessUrl(st, urlEntry, url, finalSource) ==
    IF url # Null
    THEN IF SitemapAddsUrl(st.map, url)
         THEN [st EXCEPT !.map = MapSet(st.map, url, [url |-> url, source |-> finalSource]),
                         !.urlCount = st.urlCount + 1]
         ELSE st
    ELSE [st EXCEPT !.log = Append(st.log,
              <<"Warning: Failed to extract URL from entry: ", urlEntry>>)]

\* a loop that ends at the first entry without location
RECURSIVE ProcessUrlsUntilMalformed(_, _, _, _)
ProcessUrlsUntilMalformed(urls, k, st, finalSource) ==
    IF k > Len(urls) THEN st
    ELSE IF extractUrl(urls[k]) = Null THEN ProcessUrl(st, urls[k], Null, finalSource)
    ELSE ProcessUrlsUntilMalformed(urls, k + 1,
                     ProcessUrl(st, urls[k], extractUrl(urls[k]), finalSource),
                     finalSource)

\* the loop over the entries of a URL set, from entry k on
RECURSIVE ProcessUrls(_, _, _, _)
ProcessUrls(urls, k, st, finalSource) ==
    IF k > Len(urls) THEN st
    ELSE ProcessUrls(urls, k + 1,
                     ProcessUrl(st, urls[k], extractUrl(urls[k]), finalSource),
                     finalSource)

\* the document is a sitemap index with <sitemap> entries
IsSitemapIndex(doc) == doc.root = "sitemapindex" /\ doc.entries # << >>

\* the document is a URL set with <url> entries
IsUrlSet(doc) == doc.root = "urlset" /\ doc.entries # << >>

\* the log line and the request that follow the politeness delay
SitemapIssueFetch(f) ==
    /\ statusLog' = Append(statusLog, <<"Fetching: ", getFilename(f.url)>>)
    /\ trace' = Append(trace, FetchEvent(f, f.url))
    /\ Goto([f EXCEPT !.pc = "fetch"])

\* a catch block that lets the error go on to the caller of the crawl
Escapes ==
    /\ stack' = << >>
    /\ pc' = "done"
    /\ response' = [status |-> 500, error |-> <<"Server error">>, urls |-> << >>,
                    statusLines |-> << >>, errors |-> << >>, sitemapUrl |-> << >>]

\* a catch block placed around the caller's loop: the failure of one call
\* ends its caller as well
CaughtByCaller ==
    /\ stack' = SubSeq(stack, 1, Max({Len(stack) - 2, 0}))
    /\ UNCHANGED << pc, response >>

\* the end of a catch block: the error is logged, the call returns normally
\* and the handler goes on
Caught ==
    /\ Return
    /\ UNCHANGED << pc, response >>

\* entry of crawlSitemap up to its first await
SitemapEnter ==
    /\ Running("crawlSitemap", "enter")
    /\ IF body.delay > 0
       THEN /\ trace' = Append(trace, DelayEvent(Top))
            /\ Goto([Top EXCEPT !.pc = "delay"])
            /\ UNCHANGED statusLog
       ELSE SitemapIssueFetch(Top)
    /\ UNCHANGED << world, body, pc, baseDomain, sitemapUrls, crawledCount, response,
                    globalUrls, visitedUrls, errorLog, leafVisits, failures >>
    /\ UNCHANGED << skipLog, htmlCalls, asideVars >>

\* the politeness delay of crawlSitemap has elapsed
SitemapDelayDone ==
    /\ Running("crawlSitemap", "delay")
    /\ SitemapIssueFetch(Top)
    /\ UNCHANGED << world, body, pc, baseDomain, sitemapUrls, crawledCount, response,
                    globalUrls, visitedUrls, errorLog, leafVisits, failures >>
    /\ UNCHANGED << skipLog, htmlCalls, asideVars >>

\* axios.get rejects (or the parser throws): the catch block
SitemapFetchFailed ==
    /\ Running("crawlSitemap", "fetch")
    /\ \/ SitemapDoc(world, Top.url) = NoDoc /\ UNCHANGED failures
       \/ /\ SitemapDoc(world, Top.url) # NoDoc
          /\ failures < MaxFailures
          /\ failures' = failures + 1
    /\ errorLog' = Append(errorLog, <<"Error processing ", Top.url>>)
    /\ statusLog' = Append(statusLog, <<"Error processing ", Top.url>>)
    /\ Caught
    /\ UNCHANGED << world, body, baseDomain, sitemapUrls, crawledCount,
                    globalUrls, visitedUrls, trace, leafVisits >>
    /\ UNCHANGED << skipLog, htmlCalls, asideVars >>

\* the branch of a sitemap index: the loop over its entries starts
IndexBranch(f, sitemaps, filename) ==
    /\ statusLog' = Append(statusLog, <<"Found nested sitemaps", Len(sitemaps), filename>>)
    /\ Goto([f EXCEPT !.pc = "loop", !.items = sitemaps, !.i = 1])
    /\ UNCHANGED << globalUrls, errorLog, leafVisits >>

\* the end of the URL-set branch, st being the outcome of the loop
UrlSetDone(f, urls, st) ==
    /\ globalUrls' = st.map
    /\ statusLog' = IF st.urlCount = 0 /\ Len(urls) > 0
                    THEN Append(st.log,
                           <<"Warning: Found URL entries but extracted 0 URLs", Len(urls)>>)
                    ELSE st.log
    /\ leafVisits' = Append(leafVisits,
                        [sitemapUrl |-> f.url, sourcePath |-> f.sourcePath,
                         chain |-> f.chain,
                         urls |-> [k \in 1..Len(urls) |-> extractUrl(urls[k])]])
    /\ Return
    /\ UNCHANGED errorLog

\* the URL-set branch with its source path resolved
UrlSetWith(f, urls, filename, currentSourcePath) ==
    UrlSetDone(f, urls,
        ProcessUrls(urls, 1,
            [map |-> globalUrls,
             log |-> statusLog \o << <<"Found URLs", Len(urls), filename>>,
                                     <<"Processing URLs with source path: ",
                                       currentSourcePath>> >>,
             urlCount |-> 0],
            FinalSource(currentSourcePath, filename)))

\* the branch of a URL set
UrlSetBranch(f, urls, filename) ==
    UrlSetWith(f, urls, filename, CurrentSourcePath(f.sourcePath, filename))

\* the branch of a document that is neither
\* a branch that only writes the debug line
UnknownBranchSilent(f, doc) ==
    /\ statusLog' = Append(statusLog, <<"Debug: Parsed keys: ", doc.root>>)
    /\ Return
    /\ UNCHANGED << globalUrls, errorLog, leafVisits >>

UnknownBranch(f, doc) ==
    /\ errorLog' = Append(errorLog, <<"Unknown sitemap format in ", f.url>>)
    /\ statusLog' = Append(statusLog, <<"Debug: Parsed keys: ", doc.root>>)
    /\ Return
    /\ UNCHANGED << globalUrls, leafVisits >>

\* what crawlSitemap does with the parsed document
Classify(f, doc, filename) ==
    IF IsSitemapIndex(doc) THEN IndexBranch(f, doc.entries, filename)
    ELSE IF IsUrlSet(doc) THEN UrlSetBranch(f, doc.entries, filename)
    ELSE UnknownBranch(f, doc)

\* the document arrived and parsed: index, URL set or neither
SitemapFetched ==
    /\ Running("crawlSitemap", "fetch")
    /\ SitemapDoc(world, Top.url) # NoDoc
    /\ Classify(Top, SitemapDoc(world, Top.url), getFilename(Top.url))
    /\ UNCHANGED << world, body, pc, baseDomain, sitemapUrls, crawledCount, response,
                    visitedUrls, trace, failures >>
    /\ UNCHANGED << skipLog, htmlCalls, asideVars >>

\* the call of crawlSitemap for one entry of an index, or nothing when the
\* entry has no location
\* a loop that leaves out a sitemap that was requested before
NestedCallOnce(f, nestedUrl) ==
    IF /\ nestedUrl # Null
       /\ \A i \in 1..Len(trace) : trace[i].op = "fetch" => trace[i].url # nestedUrl
    THEN Call([f EXCEPT !.i = f.i + 1],
              Frame("crawlSitemap", nestedUrl,
                    NewSourcePath(f.sourcePath, getFilename(nestedUrl)),
                    Append(f.chain, nestedUrl), 0))
    ELSE Goto([f EXCEPT !.i = f.i + 1])

NestedCall(f, nestedUrl) ==
    IF nestedUrl # Null
    THEN Call([f EXCEPT !.i = f.i + 1],
              Frame("crawlSitemap", nestedUrl,
                    NewSourcePath(f.sourcePath, getFilename(nestedUrl)),
                    Append(f.chain, nestedUrl), 0))
    ELSE Goto([f EXCEPT !.i = f.i + 1])

\* one turn of the loop over the <sitemap> entries of an index
SitemapLoop ==
    /\ Running("crawlSitemap", "loop")
    /\ Top.i <= Len(Top.items) => Len(stack) < MaxNesting
    /\ IF Top.i > Len(Top.items) THEN Return
       ELSE NestedCall(Top, extractUrl(Top.items[Top.i]))
    /\ UNCHANGED << world, body, pc, baseDomain, sitemapUrls, crawledCount, response,
                    globalUrls, visitedUrls, statusLog, errorLog,
                    trace, leafVisits, failures >>
    /\ UNCHANGED << skipLog, htmlCalls, asideVars >>

-----------------------------------------------------------------------------
(* extractInternalLinks and crawlHtmlLinks *)

\* what one anchor adds to links, normalizedUrl being its normalized href
PushLink(links, normalizedUrl, domain) ==
    IF normalizedUrl # Null /\ isInternalUrl(normalizedUrl, domain)
    THEN Append(links, normalizedUrl)
    ELSE links

\* the links pushed for the first k anchors, in document order
RECURSIVE InternalLinksUpTo(_, _, _, _)
InternalLinksUpTo(hrefs, k, baseUrl, domain) ==
    IF k = 0 THEN << >>
    ELSE PushLink(InternalLinksUpTo(hrefs, k - 1, baseUrl, domain),
                  IF hrefs[k] = << >> THEN Null ELSE normalizeUrl(hrefs[k], baseUrl),
                  domain)

\* extractInternalLinks(html, baseUrl, baseDomain), html given by its hrefs
extractInternalLinks(hrefs, baseUrl, domain) ==
    Dedup(InternalLinksUpTo(hrefs, Len(hrefs), baseUrl, domain))

\* a depth limit that lets one more level through
DepthExhaustedLate(currentDepth) == currentDepth > MaxDepth

\* the depth limit: currentDepth >= maxDepth
DepthExhausted(currentDepth) == currentDepth >= MaxDepth

\* a re-entry guard that never finds the URL
NeverVisited(visited, normalizedUrl) == FALSE

\* the re-entry guard: visitedUrls.has(normalizedUrl)
AlreadyVisited(visited, normalizedUrl) == normalizedUrl \in visited

\* a crawler that stores no page
HtmlAddsNever(map, normalizedUrl) == FALSE

\* a crawler that stores every page it fetches, present or not
HtmlAddsAlways(map, normalizedUrl) == TRUE

\* whether the page is added to the map: only a URL the map does not hold
HtmlAddsUrl(map, normalizedUrl) == ~MapHas(map, normalizedUrl)

\* a source that is the depth tag at every depth
HtmlSourceDepthOnly(currentDepth) == <<"HTML_CRAWL:depth_", ToString(currentDepth)>>

\* the source given to a URL added by the HTML crawl
HtmlSource(currentDepth) ==
    IF currentDepth = 0 THEN <<"HTML_CRAWL:sitemap">>
    ELSE <<"HTML_CRAWL:depth_", ToString(currentDepth)>>

\* response.headers['content-type'] includes 'text/html'
\* a test that takes every content type for HTML
IsHtmlAlways(contentType) == TRUE

IsHtml(contentType) == \E i \in 1..Len(contentType) : contentType[i] = "text/html"

\* the log line and the request that follow the politeness delay
HtmlIssueFetch(f) ==
    /\ statusLog' = Append(statusLog,
                           <<"Crawling HTML: ", f.normalizedUrl, f.currentDepth>>)
    /\ trace' = Append(trace, FetchEvent(f, f.normalizedUrl))
    /\ Goto([f EXCEPT !.pc = "fetch"])

\* the early return crawlHtmlLinks takes, "none" when it goes on
HtmlSkip(currentDepth, normalizedUrl) ==
    IF DepthExhausted(currentDepth) THEN "Max depth reached"
    ELSE IF normalizedUrl = Null THEN "Failed to normalize URL"
    ELSE IF AlreadyVisited(visitedUrls, normalizedUrl) THEN "Already visited, skipping"
    ELSE "none"

\* a crawler that forgets to mark the URL
MarkNothing(visited, normalizedUrl) == visited

\* visitedUrls.add(normalizedUrl)
MarkVisited(visited, normalizedUrl) == visited \cup {normalizedUrl}

\* a crawler that requests the page without waiting
HtmlVisitNoDelay(f) ==
    /\ visitedUrls' = MarkVisited(visitedUrls, f.normalizedUrl)
    /\ HtmlIssueFetch(f)

\* the marking of the URL and the start of the politeness delay
HtmlVisit(f) ==
    /\ visitedUrls' = MarkVisited(visitedUrls, f.normalizedUrl)
    /\ IF body.delay > 0
       THEN /\ trace' = Append(trace, DelayEvent(f))
            /\ Goto([f EXCEPT !.pc = "delay"])
            /\ UNCHANGED statusLog
       ELSE HtmlIssueFetch(f)

\* crawlHtmlLinks with its URL normalized
HtmlEnterWith(f, normalizedUrl, skip) ==
    IF skip # "none"
    THEN /\ skipLog' = Append(skipLog, [line |-> skip, url |-> f.url,
                                        normalizedUrl |-> normalizedUrl,
                                        depth |-> f.currentDepth])
         /\ Return
         /\ UNCHANGED << visitedUrls, statusLog, trace >>
    ELSE /\ HtmlVisit([f EXCEPT !.normalizedUrl = normalizedUrl])
         /\ UNCHANGED skipLog

\* crawlHtmlLinks from its first statement, its URL normalized
HtmlEnterAt(f, normalizedUrl) ==
    HtmlEnterWith(f, normalizedUrl, HtmlSkip(f.currentDepth, normalizedUrl))

\* entry of crawlHtmlLinks up to its first await: the depth limit, the
\* normalization, the visited guard and the marking
HtmlEnter ==
    /\ Running("crawlHtmlLinks", "enter")
    /\ HtmlEnterAt(Top, normalizeUrl(Top.url, Null))
    /\ htmlCalls' = Append(htmlCalls, [url |-> Top.url, depth |-> Top.currentDepth])
    /\ UNCHANGED << world, body, pc, baseDomain, sitemapUrls, crawledCount, response,
                    globalUrls, errorLog, leafVisits, failures >>
    /\ UNCHANGED asideVars

\* the politeness delay of crawlHtmlLinks has elapsed
HtmlDelayDone ==
    /\ Running("crawlHtmlLinks", "delay")
    /\ HtmlIssueFetch(Top)
    /\ UNCHANGED << world, body, pc, baseDomain, sitemapUrls, crawledCount, response,
                    globalUrls, visitedUrls, errorLog, leafVisits, failures >>
    /\ UNCHANGED << skipLog, htmlCalls, asideVars >>

\* axios.get rejects: the catch block
HtmlFetchFailed ==
    /\ Running("crawlHtmlLinks", "fetch")
    /\ \/ ~PageDoc(world, Top.normalizedUrl).exists /\ UNCHANGED failures
       \/ /\ PageDoc(world, Top.normalizedUrl).exists
          /\ failures < MaxFailures
          /\ failures' = failures + 1
    /\ errorLog' = Append(errorLog, <<"Error crawling HTML ", Top.normalizedUrl>>)
    /\ statusLog' = Append(statusLog, <<"Error crawling HTML ", Top.normalizedUrl>>)
    /\ Caught
    /\ UNCHANGED << world, body, baseDomain, sitemapUrls, crawledCount,
                    globalUrls, visitedUrls, trace, leafVisits >>
    /\ UNCHANGED << skipLog, htmlCalls, asideVars >>

\* the first three links, for the log
SampleLinks(internalLinks) ==
    SubSeq(internalLinks, 1, IF Len(internalLinks) < 3 THEN Len(internalLinks) ELSE 3)

\* the map after the page's own insertion
HtmlInsert(map, normalizedUrl, currentDepth) ==
    IF HtmlAddsUrl(map, normalizedUrl)
    THEN MapSet(map, normalizedUrl,
                [url |-> normalizedUrl, source |-> HtmlSource(currentDepth)])
    ELSE map

\* an HTML page: map insertion, then the loop over its internal links
HtmlPage(f, internalLinks) ==
    /\ globalUrls' = HtmlInsert(globalUrls, f.normalizedUrl, f.currentDepth)
    /\ IF Len(internalLinks) > 0
       THEN /\ statusLog' = statusLog \o
                 << <<"Found internal links on ", Len(internalLinks), f.normalizedUrl>>,
                    <<"Sample links: ", SampleLinks(internalLinks)>> >>
            /\ Goto([f EXCEPT !.pc = "loop", !.items = internalLinks, !.i = 1])
       ELSE /\ statusLog' = Append(statusLog,
                                   <<"No internal links found on ", f.normalizedUrl>>)
            /\ Return

\* what crawlHtmlLinks does with the response
HtmlResponse(f, page) ==
    IF ~IsHtml(page.contentType)
    THEN /\ statusLog' = Append(statusLog,
               <<"Skipping non-HTML content: ", f.normalizedUrl, page.contentType>>)
         /\ Return
         /\ UNCHANGED globalUrls
    ELSE HtmlPage(f, extractInternalLinks(page.hrefs, f.normalizedUrl, baseDomain))

\* the page arrived: content type, map insertion, link extraction
HtmlFetched ==
    /\ Running("crawlHtmlLinks", "fetch")
    /\ PageDoc(world, Top.normalizedUrl).exists
    /\ HtmlResponse(Top, PageDoc(world, Top.normalizedUrl))
    /\ UNCHANGED << world, body, pc, baseDomain, sitemapUrls, crawledCount, response,
                    visitedUrls, errorLog, trace, leafVisits, failures >>
    /\ UNCHANGED << skipLog, htmlCalls, asideVars >>

\* one turn of the loop over the internal links of a page
HtmlLoop ==
    /\ Running("crawlHtmlLinks", "loop")
    /\ IF Top.i > Len(Top.items) THEN Return
       ELSE Call([Top EXCEPT !.i = Top.i + 1],
                 Frame("crawlHtmlLinks", Top.items[Top.i], << >>, << >>,
                       Top.currentDepth + 1))
    /\ UNCHANGED << world, body, pc, baseDomain, sitemapUrls, crawledCount, response,
                    globalUrls, visitedUrls, statusLog, errorLog,
                    trace, leafVisits, failures >>
    /\ UNCHANGED << skipLog, htmlCalls, asideVars >>

-----
(* The POST handler of the crawl route *)

NoResponse == [status |-> 0, error |-> << >>, urls |-> << >>, statusLines |-> << >>,
               errors |-> << >>, sitemapUrl |-> << >>]

ErrorResponse(status, error) == [NoResponse EXCEPT !.status = status, !.error = error]

\* the success response: NextResponse.json(result)
ResultResponse(urls, statusLines, errors, sitemapUrl) ==
    [status |-> 200, error |-> << >>, urls |-> urls, statusLines |-> statusLines,
     errors |-> errors, sitemapUrl |-> sitemapUrl]

\* a return that leaves out the completion line
AssembleWithoutCompletion(log) ==
    /\ statusLog' = log
    /\ response' = ResultResponse(globalUrls, statusLog', errorLog, body.sitemapUrl)
    /\ pc' = "done"

\* the statements from "Convert Map to Array" to the return
Assemble(log) ==
    /\ statusLog' = Append(log, <<"Crawl completed. Total unique URLs found: ",
                                  Len(globalUrls)>>)
    /\ response' = ResultResponse(globalUrls, statusLog', errorLog, body.sitemapUrl)
    /\ pc' = "done"

\* the start of a valid request: fresh state and the call of crawlSitemap
PostBegin(urlObj, entryFilename) ==
    /\ baseDomain' = urlObj.origin
    /\ statusLog' = << <<"Starting crawl from: ", entryFilename>>,
                       <<"Initial source path will be: ", entryFilename>> >>
    /\ stack' = << Frame("crawlSitemap", body.sitemapUrl,
                         IF NotBlank(entryFilename) THEN Trim(entryFilename)
                         ELSE <<"sitemap.xml">>,
                         <<body.sitemapUrl>>, 0) >>
    /\ pc' = "sitemap"
    /\ UNCHANGED response

\* the request is answered with an error
PostReject(status, error) ==
    /\ response' = ErrorResponse(status, error)
    /\ pc' = "done"
    /\ UNCHANGED << baseDomain, statusLog, stack >>

\* a format check that lets every string through
NeverThrows(urlObj) == FALSE

\* new URL(sitemapUrl) throws
UrlThrows(urlObj) == ~urlObj.ok

\* the validation of the request, urlObj being new URL(sitemapUrl); a body
\* that request.json() cannot give ends in the outer catch
PostValidate(urlObj) ==
    IF ~body.json THEN PostReject(500, <<"Server error">>)
    ELSE IF body.urlType # "string" \/ body.sitemapUrl = << >>
    THEN PostReject(400, <<"Invalid sitemap URL provided">>)
    ELSE IF UrlThrows(urlObj) THEN PostReject(400, <<"Invalid URL format">>)
    ELSE PostBegin(urlObj, FilenameOf(urlObj))

\* the request arrives: validation, fresh state, the call of crawlSitemap
PostStart ==
    /\ pc = "idle"
    /\ PostValidate(ParseAbsolute(body.sitemapUrl))
    /\ UNCHANGED << world, body, sitemapUrls, crawledCount, globalUrls, visitedUrls,
                    errorLog, trace, leafVisits, failures >>
    /\ UNCHANGED << skipLog, htmlCalls, asideVars >>

\* crawlSitemap has returned: the HTML phase starts, or the result is assembled
PostAfterSitemap ==
    /\ pc = "sitemap" /\ stack = << >>
    /\ IF body.crawlHtmlLinks /\ baseDomain # Null
       THEN /\ statusLog' = statusLog \o
                 << <<"Starting HTML link crawling for URLs", Len(globalUrls)>>,
                    <<"Base domain: ", baseDomain>> >>
            /\ sitemapUrls' = MapKeys(globalUrls)
            /\ crawledCount' = 0
            /\ pc' = "htmlLoop"
            /\ UNCHANGED response
       ELSE /\ Assemble(Append(statusLog, <<"HTML link crawling is disabled">>))
            /\ UNCHANGED << sitemapUrls, crawledCount >>
    /\ UNCHANGED << world, body, baseDomain, globalUrls, visitedUrls, errorLog, stack,
                    trace, leafVisits, failures >>
    /\ UNCHANGED << skipLog, htmlCalls, asideVars >>

\* a seed loop that iterates the live keys of the map
SeedsLive(snapshot, map) == MapKeys(map)

\* the URLs the seed loop iterates: the array taken before the loop
Seeds(snapshot, map) == snapshot

\* the call of crawlHtmlLinks for the next seed
SeedCall(seeds) ==
    stack' = << Frame("crawlHtmlLinks", seeds[crawledCount + 1], << >>, << >>, 0) >>

\* the seed loop goes on when seeds are left
SeedsLeft(seeds) == crawledCount < Len(seeds)

\* the loop over the seeds: the next call of crawlHtmlLinks, or the end
PostHtmlNext ==
    /\ pc = "htmlLoop" /\ stack = << >>
    /\ IF SeedsLeft(Seeds(sitemapUrls, globalUrls))
       THEN /\ SeedCall(Seeds(sitemapUrls, globalUrls))
            /\ pc' = "htmlCall"
            /\ UNCHANGED << statusLog, response >>
       ELSE /\ Assemble(Append(statusLog,
                  <<"HTML link crawling completed. Total URLs found: ",
                    Len(globalUrls), Len(sitemapUrls)>>))
            /\ UNCHANGED stack
    /\ UNCHANGED << world, body, baseDomain, sitemapUrls, crawledCount, globalUrls,
                    visitedUrls, errorLog, trace, leafVisits, failures >>
    /\ UNCHANGED << skipLog, htmlCalls, asideVars >>

\* a seed's call of crawlHtmlLinks has returned
PostHtmlReturned ==
    /\ pc = "htmlCall" /\ stack = << >>
    /\ crawledCount' = crawledCount + 1
    /\ statusLog' = IF crawledCount' % ProgressEvery = 0
                    THEN Append(statusLog, <<"HTML crawl progress: ", crawledCount',
                                             Len(sitemapUrls), Len(globalUrls)>>)
                    ELSE statusLog
    /\ pc' = "htmlLoop"
    /\ UNCHANGED << world, body, baseDomain, sitemapUrls, response, globalUrls,
                    visitedUrls, errorLog, stack, trace, leafVisits, failures >>
    /\ UNCHANGED << skipLog, htmlCalls, asideVars >>

-----------------------------------------------------------------------------
(* The crawl: one invocation of the POST handler against one site *)

NormOff ==
    /\ nUrl = Null /\ nBase = Null /\ nOnce = Null /\ nTwice = Null /\ npc = "off"

\* no second invocation
PairOff ==
    /\ parked = [pc |-> "off"]
    /\ turn = 1
    /\ phase = "single"
    /\ alone = << >>
    /\ mixed = FALSE

\* no request to the persistence routes
StoreOff ==
    /\ store = << >>
    /\ latest = << >>
    /\ lastOp = [op |-> "none"]

\* let client = null
NoClient == 0

\* the requests that may be inside getRedisClient at the same time
Callers == {1, 2}

\* a caller that is not inside getRedisClient
Outside == [pc |-> "idle", h |-> NoClient]

\* the process has not asked for a Redis client
ClientOff ==
    /\ client = NoClient
    /\ sockets = << >>
    /\ callers = [c \in Callers |-> Outside]
    /\ calls = << >>

Init ==
    /\ world \in Worlds
    /\ body \in Bodies(world)
    /\ pc = "idle"
    /\ baseDomain = Null
    /\ sitemapUrls = << >>
    /\ crawledCount = 0
    /\ response = NoResponse
    /\ globalUrls = << >>
    /\ visitedUrls = {}
    /\ statusLog = << >>
    /\ errorLog = << >>
    /\ stack = << >>
    /\ trace = << >>
    /\ leafVisits = << >>
    /\ failures = 0
    /\ skipLog = << >>
    /\ htmlCalls = << >>
    /\ NormOff
    /\ ClientOff
    /\ PairOff
    /\ StoreOff

Next ==
    \/ PostStart
    \/ SitemapEnter
    \/ SitemapDelayDone
    \/ SitemapFetchFailed
    \/ SitemapFetched
    \/ SitemapLoop
    \/ PostAfterSitemap
    \/ PostHtmlNext
    \/ HtmlEnter
    \/ HtmlDelayDone
    \/ HtmlFetchFailed
    \/ HtmlFetched
    \/ HtmlLoop
    \/ PostHtmlReturned

Spec == Init /\ [][Next]_vars

\* the crawl when every delay and every fetch that is outstanding comes to an
\* end, with a response or with a failure, and the handler goes on from it
\* weak fairness of an action, with ENABLED written out as the action's guard:
\* the three steps below are enabled exactly where these predicates hold
HtmlEnterReady == Running("crawlHtmlLinks", "enter")

HtmlFetchedReady ==
    Running("crawlHtmlLinks", "fetch") /\ PageDoc(world, Top.normalizedUrl).exists

SitemapFetchedReady ==
    Running("crawlSitemap", "fetch") /\ SitemapDoc(world, Top.url) # NoDoc

SpecLive ==
    /\ Init /\ [][Next]_vars
    /\ WF_vars(PostStart) /\ WF_vars(SitemapEnter) /\ WF_vars(SitemapDelayDone)
    /\ WF_vars(SitemapFetchFailed) /\ WF_vars(SitemapLoop)
    /\ WF_vars(PostAfterSitemap) /\ WF_vars(PostHtmlNext) /\ WF_vars(HtmlDelayDone)
    /\ WF_vars(HtmlFetchFailed) /\ WF_vars(HtmlLoop) /\ WF_vars(PostHtmlReturned)
    /\ ([]<>~HtmlEnterReady \/ []<><<HtmlEnter>>_vars)
    /\ ([]<>~HtmlFetchedReady \/ []<><<HtmlFetched>>_vars)
    /\ ([]<>~SitemapFetchedReady \/ []<><<SitemapFetched>>_vars)

-----------------------------------------------------------------------------
(* crawlSitemap called on its own, with a source path its caller chooses *)

\* the source paths given to the call: none, white space, a filename
ResolverPaths == { << >>, <<" ">>, <<"up.xml">> }

InitResolver ==
    /\ world \in Worlds
    /\ body \in [ json : {TRUE}, urlType : {"string"}, sitemapUrl : {EntryUrl(world)},
                   delay : {0, DefaultDelay}, crawlHtmlLinks : {FALSE} ]
    /\ pc = "direct"
    /\ baseDomain = Null
    /\ sitemapUrls = << >>
    /\ crawledCount = 0
    /\ response = NoResponse
    /\ globalUrls = << >>
    /\ visitedUrls = {}
    /\ statusLog = << >>
    /\ errorLog = << >>
    /\ stack \in { << Frame("crawlSitemap", EntryUrl(world), sp, <<EntryUrl(world)>>, 0) >> :
                    sp \in ResolverPaths }
    /\ trace = << >>
    /\ leafVisits = << >>
    /\ failures = 0
    /\ skipLog = << >>
    /\ htmlCalls = << >>
    /\ NormOff
    /\ ClientOff
    /\ PairOff
    /\ StoreOff

NextResolver ==
    \/ SitemapEnter
    \/ SitemapDelayDone
    \/ SitemapFetchFailed
    \/ SitemapFetched
    \/ SitemapLoop

SpecResolver == InitResolver /\ [][NextResolver]_vars

-----------------------------------------------------------------------------
(* The normalizer on its own: one input, normalized once and then again *)

\* tokens of the inputs
NormAlphabet == {Scheme, "a.com", "/", "p", "#"}

\* the input strings: the scheme, when present, comes first
NormInputs ==
    UNION { { s \in [1..n -> NormAlphabet] : \A i \in 2..n : s[i] # Scheme }
            : n \in 0..MaxLen }

\* the base URLs: none, or a page two levels deep
NormBases == { Null, A \o <<"/", "d", "/", "q">> }

InitNorm ==
    /\ world = "leaf"
    /\ body = [json |-> FALSE, urlType |-> "undefined", sitemapUrl |-> << >>,
               delay |-> DefaultDelay, crawlHtmlLinks |-> FALSE]
    /\ pc = "off"
    /\ baseDomain = Null
    /\ sitemapUrls = << >>
    /\ crawledCount = 0
    /\ response = NoResponse
    /\ globalUrls = << >>
    /\ visitedUrls = {}
    /\ statusLog = << >>
    /\ errorLog = << >>
    /\ stack = << >>
    /\ trace = << >>
    /\ leafVisits = << >>
    /\ failures = 0
    /\ skipLog = << >>
    /\ htmlCalls = << >>
    /\ nUrl \in NormInputs
    /\ nBase \in NormBases
    /\ nOnce = Null
    /\ nTwice = Null
    /\ npc = "input"
    /\ PairOff
    /\ StoreOff
    /\ ClientOff

\* normalizeUrl(url, baseUrl) on the input
NormalizeOnce ==
    /\ npc = "input"
    /\ nOnce' = normalizeUrl(nUrl, nBase)
    /\ npc' = "once"
    /\ UNCHANGED << nUrl, nBase, nTwice >>
    /\ UNCHANGED << crawlVars, pairVars, storeVars, clientVars >>

\* normalizeUrl(result) on a result that is not null
NormalizeTwice ==
    /\ npc = "once"
    /\ nOnce # Null
    /\ nTwice' = normalizeUrl(nOnce, Null)
    /\ npc' = "twice"
    /\ UNCHANGED << nUrl, nBase, nOnce >>
    /\ UNCHANGED << crawlVars, pairVars, storeVars, clientVars >>

NextNorm == NormalizeOnce \/ NormalizeTwice

SpecNorm == InitNorm /\ [][NextNorm]_vars

-----------------------------------------------------------------------------
(* The persistence routes: save, load and clear over the Redis store *)

\* JSON values: strings (sequences of tokens), arrays, objects and null
JString(s) == [kind |-> "string", s |-> s, items |-> << >>]

JArray(items) == [kind |-> "array", s |-> << >>, items |-> items]

JObject(members) == [kind |-> "object", s |-> << >>, items |-> members]

JNull == [kind |-> "null", s |-> << >>, items |-> << >>]

Member(name, value) == [name |-> name, value |-> value]

\* the tokens of a JSON text: punctuation and quoted strings
Punct(c) == [t |-> "punct", s |-> <<c>>]

Quoted(s) == [t |-> "string", s |-> s]

\* obj[name] = value on the members of an object: the place of an own
\* property is kept, a new one goes last
SetMember(members, name, value) ==
    IF \E i \in 1..Len(members) : members[i].name = name
    THEN [ i \in 1..Len(members) |->
             IF members[i].name = name THEN Member(name, value) ELSE members[i] ]
    ELSE Append(members, Member(name, value))

RECURSIVE Stringify(_)
RECURSIVE StringifyItems(_)
RECURSIVE StringifyMembers(_)
\* JSON.stringify(value)
Stringify(value) ==
    IF value.kind = "string" THEN << Quoted(value.s) >>
    ELSE IF value.kind = "array"
         THEN << Punct("[") >> \o StringifyItems(value.items) \o << Punct("]") >>
    ELSE IF value.kind = "object"
         THEN << Punct("{") >> \o StringifyMembers(value.items) \o << Punct("}") >>
    ELSE << Punct("null") >>

StringifyItems(items) ==
    IF items = << >> THEN << >>
    ELSE Stringify(Head(items))
         \o (IF Len(items) > 1 THEN << Punct(",") >> ELSE << >>)
         \o StringifyItems(Tail(items))

StringifyMembers(members) ==
    IF members = << >> THEN << >>
    ELSE << Quoted(Head(members).name), Punct(":") >>
         \o Stringify(Head(members).value)
         \o (IF Len(members) > 1 THEN << Punct(",") >> ELSE << >>)
         \o StringifyMembers(Tail(members))

RECURSIVE ParseValue(_)
RECURSIVE ParseItems(_, _)
RECURSIVE ParseItemsAfter(_, _)
RECURSIVE ParseMembers(_, _)
RECURSIVE ParseMembersAfter(_, _, _)
\* the value at the head of a JSON text and the text after it
ParseValue(text) ==
    IF Head(text).t = "string"
    THEN [value |-> JString(Head(text).s), rest |-> Tail(text)]
    ELSE IF Head(text) = Punct("[") THEN ParseItems(Tail(text), << >>)
    ELSE IF Head(text) = Punct("{") THEN ParseMembers(Tail(text), << >>)
    ELSE [value |-> JNull, rest |-> Tail(text)]

ParseItems(text, items) ==
    IF Head(text) = Punct("]") THEN [value |-> JArray(items), rest |-> Tail(text)]
    ELSE IF Head(text) = Punct(",") THEN ParseItems(Tail(text), items)
    ELSE ParseItemsAfter(ParseValue(text), items)

ParseItemsAfter(parsed, items) == ParseItems(parsed.rest, Append(items, parsed.value))

ParseMembers(text, members) ==
    IF Head(text) = Punct("}") THEN [value |-> JObject(members), rest |-> Tail(text)]
    ELSE IF Head(text) = Punct(",") THEN ParseMembers(Tail(text), members)
    ELSE ParseMembersAfter(Head(text).s, ParseValue(SubSeq(text, 3, Len(text))), members)

ParseMembersAfter(name, parsed, members) ==
    ParseMembers(parsed.rest, SetMember(members, name, parsed.value))

\* JSON.parse(text)
JsonParse(text) == ParseValue(text).value

\* one entry of the urls of a crawl result
UrlEntry(url, source) ==
    JObject(<< Member(<<"url">>, JString(url)), Member(<<"source">>, JString(source)) >>)

\* the results a client may send to save: a crawl result, a crawl result
\* that carries the sitemapUrl of an earlier crawl and strings that look like
\* JSON punctuation, and an object without fields
SaveResults ==
    { JObject(<< Member(<<"urls">>,
                        JArray(<< UrlEntry(A \o <<"/", "p1">>, <<"root.xml">>),
                                  UrlEntry(A \o <<"/", "p2">>,
                                           <<"root.xml", "=>", "a.xml">>) >>)),
                 Member(<<"status">>, JArray(<< JString(<<"Crawl completed">>) >>)),
                 Member(<<"errors">>, JArray(<< >>)) >>),
      JObject(<< Member(<<"urls">>, JArray(<< >>)),
                 Member(<<"sitemapUrl">>, JString(B \o <<"/", "old.xml">>)),
                 Member(<<"status">>, JArray(<< JString(<<",">>), JString(<<"}">>) >>)),
                 Member(<<"errors">>, JArray(<< JString(<<"[">>) >>)) >>),
      JObject(<< >>) }

\* the sitemap URLs a client may send to save: two with the same filename,
\* one without filename, and the text the page shows after "load all"
SaveUrls ==
    { A \o <<"/", "root.xml">>, B \o <<"/", "sub", "/", "root.xml">>, A \o <<"/">>,
      <<"All saved results">> }

\* the bodies of the save requests; a missing field is Null or JNull
SaveBodies == [ sitemapUrl : SaveUrls \cup {Null}, results : SaveResults \cup {JNull} ]

\* the keys a client may ask to load; Null is a missing key
LoadKeys == { <<"root.xml">>, <<"sitemap.xml">>, <<"a.xml">>, Null }

\* the response of a persistence route
Reply(op, key, status, results, deletedCount) ==
    [op |-> op, key |-> key, status |-> status, results |-> results,
     deletedCount |-> deletedCount]

\* a save that stores under the whole URL
SaveKeyWhole(sitemapUrl) == sitemapUrl

\* const key = getFilename(sitemapUrl)
SaveKey(sitemapUrl) == getFilename(sitemapUrl)

\* { ...results, sitemapUrl: sitemapUrl }
ResultsWithSitemapUrl(results, sitemapUrl) ==
    JObject(SetMember(results.items, <<"sitemapUrl">>, JString(sitemapUrl)))

\* client.set(key, value) on a database
RedisSet(db, key, value) ==
    [ k \in (DOMAIN db) \cup {key} |-> IF k = key THEN value ELSE db[k] ]

\* the saves remembered after one more save of sitemapUrl
Remember(saves, sitemapUrl, results) ==
    LET Other(e) == e.sitemapUrl # sitemapUrl
    IN  Append(SelectSeq(saves, Other), [sitemapUrl |-> sitemapUrl, results |-> results])

\* the save route once the body is validated
SaveAs(key, text, b) ==
    /\ store' = RedisSet(store, key, text)
    /\ latest' = Remember(latest, b.sitemapUrl, b.results)
    /\ lastOp' = Reply("save", key, 200, JNull, 0)

\* POST /api/save
PostSave ==
    /\ phase = "store"
    /\ \E b \in SaveBodies :
         IF b.sitemapUrl = Null \/ b.results = JNull
         THEN /\ lastOp' = Reply("save", Null, 400, JNull, 0)
              /\ UNCHANGED << store, latest >>
         ELSE SaveAs(SaveKey(b.sitemapUrl),
                     Stringify(ResultsWithSitemapUrl(b.results, b.sitemapUrl)), b)
    /\ UNCHANGED << crawlVars, normVars, pairVars, clientVars >>

\* POST /api/save when Redis cannot be reached: the catch block
PostSaveFailed ==
    /\ phase = "store"
    /\ lastOp' = Reply("save", Null, 500, JNull, 0)
    /\ UNCHANGED << store, latest >>
    /\ UNCHANGED << crawlVars, normVars, pairVars, clientVars >>

\* the load route once the key is there: client.get and JSON.parse
LoadAs(key) ==
    IF key \in DOMAIN store
    THEN lastOp' = Reply("load", key, 200, JsonParse(store[key]), 0)
    ELSE lastOp' = Reply("load", key, 404, JNull, 0)

\* POST /api/load
PostLoad ==
    /\ phase = "store"
    /\ \E key \in LoadKeys :
         IF key = Null THEN lastOp' = Reply("load", Null, 400, JNull, 0)
         ELSE LoadAs(key)
    /\ UNCHANGED << store, latest >>
    /\ UNCHANGED << crawlVars, normVars, pairVars, clientVars >>

\* POST /api/load when Redis cannot be reached: the catch block
PostLoadFailed ==
    /\ phase = "store"
    /\ \E key \in LoadKeys \ {Null} : lastOp' = Reply("load", key, 500, JNull, 0)
    /\ UNCHANGED << store, latest >>
    /\ UNCHANGED << crawlVars, normVars, pairVars, clientVars >>

\* a clear route that counts the keys and reports, and deletes nothing
DeleteClearReportsOnly ==
    /\ phase = "store"
    /\ lastOp' = Reply("clear", Null, 200, JNull, Cardinality(DOMAIN store))
    /\ latest' = << >>
    /\ UNCHANGED store
    /\ UNCHANGED << crawlVars, normVars, pairVars, clientVars >>

\* DELETE /api/clear
DeleteClear ==
    /\ phase = "store"
    /\ lastOp' = Reply("clear", Null, 200, JNull, Cardinality(DOMAIN store))
    /\ IF DOMAIN store = {} THEN UNCHANGED << store, latest >>
       ELSE store' = << >> /\ latest' = << >>
    /\ UNCHANGED << crawlVars, normVars, pairVars, clientVars >>

\* DELETE /api/clear when Redis cannot be reached: the catch block
DeleteClearFailed ==
    /\ phase = "store"
    /\ lastOp' = Reply("clear", Null, 500, JNull, 0)
    /\ UNCHANGED << store, latest >>
    /\ UNCHANGED << crawlVars, normVars, pairVars, clientVars >>

\* the filenames the model's sitemap URLs give, in the order of Array.sort()
KeyOrder == << <<"a.xml">>, <<"root.xml">>, <<"sitemap.xml">> >>

\* keys.sort() of client.keys('*')
SortedKeys(db) ==
    LET Held(k) == k \in DOMAIN db
    IN  SelectSeq(KeyOrder, Held)

\* the body { keys: [...] } of the keys route
KeysBody(keys) ==
    JObject(<< Member(<<"keys">>, JArray([ i \in 1..Len(keys) |-> JString(keys[i]) ])) >>)

\* GET /api/keys
GetKeys ==
    /\ phase = "store"
    /\ lastOp' = Reply("keys", Null, 200, KeysBody(SortedKeys(store)), 0)
    /\ UNCHANGED << store, latest >>
    /\ UNCHANGED << crawlVars, normVars, pairVars, clientVars >>

\* GET /api/keys when Redis cannot be reached: the catch block
GetKeysFailed ==
    /\ phase = "store"
    /\ lastOp' = Reply("keys", Null, 500, JNull, 0)
    /\ UNCHANGED << store, latest >>
    /\ UNCHANGED << crawlVars, normVars, pairVars, clientVars >>

InitStore ==
    /\ world = "leaf"
    /\ body = [json |-> FALSE, urlType |-> "undefined", sitemapUrl |-> << >>,
               delay |-> DefaultDelay, crawlHtmlLinks |-> FALSE]
    /\ pc = "off"
    /\ baseDomain = Null
    /\ sitemapUrls = << >>
    /\ crawledCount = 0
    /\ response = NoResponse
    /\ globalUrls = << >>
    /\ visitedUrls = {}
    /\ statusLog = << >>
    /\ errorLog = << >>
    /\ stack = << >>
    /\ trace = << >>
    /\ leafVisits = << >>
    /\ failures = 0
    /\ skipLog = << >>
    /\ htmlCalls = << >>
    /\ NormOff
    /\ ClientOff
    /\ parked = [pc |-> "off"]
    /\ turn = 1
    /\ phase = "store"
    /\ alone = << >>
    /\ mixed = FALSE
    /\ store = << >>
    /\ latest = << >>
    /\ lastOp = Reply("none", Null, 0, JNull, 0)

NextStore ==
    \/ PostSave
    \/ PostSaveFailed
    \/ PostLoad
    \/ PostLoadFailed
    \/ DeleteClear
    \/ DeleteClearFailed
    \/ GetKeys
    \/ GetKeysFailed

SpecStore == InitStore /\ [][NextStore]_vars

-----------------------------------------------------------------------------
(* Two invocations of the POST handler of the crawl route in one process, *)
(* each run alone first and then interleaved at their awaits              *)

\* the locals of an invocation that has not started: the map, the visited
\* set and the two logs are created by the handler; the network makes no
\* fetch of an existing document fail, so that a site answers every run alike
Fresh(w, b) ==
    [world |-> w, body |-> b, pc |-> "idle", baseDomain |-> Null,
     sitemapUrls |-> << >>, crawledCount |-> 0, response |-> NoResponse,
     globalUrls |-> << >>, visitedUrls |-> {}, statusLog |-> << >>,
     errorLog |-> << >>, stack |-> << >>, trace |-> << >>, leafVisits |-> << >>,
     failures |-> MaxFailures, skipLog |-> << >>, htmlCalls |-> << >>]

\* the locals of the invocation that is running
Current ==
    [world |-> world, body |-> body, pc |-> pc, baseDomain |-> baseDomain,
     sitemapUrls |-> sitemapUrls, crawledCount |-> crawledCount, response |-> response,
     globalUrls |-> globalUrls, visitedUrls |-> visitedUrls, statusLog |-> statusLog,
     errorLog |-> errorLog, stack |-> stack, trace |-> trace, leafVisits |-> leafVisits,
     failures |-> failures, skipLog |-> skipLog, htmlCalls |-> htmlCalls]

\* the invocation inv goes on running
Load(inv) ==
    /\ world' = inv.world
    /\ body' = inv.body
    /\ pc' = inv.pc
    /\ baseDomain' = inv.baseDomain
    /\ sitemapUrls' = inv.sitemapUrls
    /\ crawledCount' = inv.crawledCount
    /\ response' = inv.response
    /\ globalUrls' = inv.globalUrls
    /\ visitedUrls' = inv.visitedUrls
    /\ statusLog' = inv.statusLog
    /\ errorLog' = inv.errorLog
    /\ stack' = inv.stack
    /\ trace' = inv.trace
    /\ leafVisits' = inv.leafVisits
    /\ failures' = inv.failures
    /\ skipLog' = inv.skipLog
    /\ htmlCalls' = inv.htmlCalls

\* a process in which the map is one object used by every invocation
ResumeWithSharedMap(own, running) == [own EXCEPT !.globalUrls = running.globalUrls]

\* what an invocation finds when it goes on after an await: its own locals,
\* whatever the invocation that ran meanwhile did to its own
Resume(own, running) == own

\* the running invocation is at an await (of the request body, of a delay or
\* of a response) or has returned
AtAwait ==
    \/ pc \in {"idle", "done"}
    \/ stack # << >> /\ Top.pc \in {"delay", "fetch"}

\* the invocation has started and has not returned
MidCrawl(inv) == inv.pc \notin {"idle", "done"}

\* the event loop goes on with the other invocation
Switch ==
    /\ phase = "both"
    /\ AtAwait
    /\ parked.pc # "done"
    /\ Load(Resume(parked, Current))
    /\ parked' = Current
    /\ turn' = 3 - turn
    /\ mixed' = (mixed \/ (MidCrawl(Current) /\ MidCrawl(parked)))
    /\ UNCHANGED << phase, alone, normVars, storeVars, clientVars >>

\* an invocation run alone has returned: its response is kept, and the next
\* run starts from fresh locals
AloneReturned ==
    /\ phase \in {"alone1", "alone2"}
    /\ pc = "done"
    /\ alone' = Append(alone, response)
    /\ Load(parked)
    /\ parked' = Fresh(world, body)
    /\ turn' = 3 - turn
    /\ phase' = IF phase = "alone1" THEN "alone2" ELSE "both"
    /\ UNCHANGED << mixed, normVars, storeVars, clientVars >>

\* the requests of the two invocations: the first crawls the tree site with
\* a delay, the second the leaf or the deep site
PairFirst ==
    { Fresh("tree", [json |-> TRUE, urlType |-> "string", sitemapUrl |-> EntryUrl("tree"),
                     delay |-> DefaultDelay, crawlHtmlLinks |-> TRUE]) }

PairSecond ==
    { Fresh(w, [json |-> TRUE, urlType |-> "string", sitemapUrl |-> EntryUrl(w),
                delay |-> 0, crawlHtmlLinks |-> h]) :
        w \in {"leaf", "deep", "tree"}, h \in BOOLEAN }

InitPair ==
    /\ \E first \in PairFirst :
         /\ world = first.world
         /\ body = first.body
         /\ failures = first.failures
    /\ pc = "idle"
    /\ baseDomain = Null
    /\ sitemapUrls = << >>
    /\ crawledCount = 0
    /\ response = NoResponse
    /\ globalUrls = << >>
    /\ visitedUrls = {}
    /\ statusLog = << >>
    /\ errorLog = << >>
    /\ stack = << >>
    /\ trace = << >>
    /\ leafVisits = << >>
    /\ skipLog = << >>
    /\ htmlCalls = << >>
    /\ NormOff
    /\ ClientOff
    /\ parked \in PairSecond
    /\ turn = 1
    /\ phase = "alone1"
    /\ alone = << >>
    /\ mixed = FALSE
    /\ StoreOff

NextPair ==
    \/ PostStart
    \/ SitemapEnter
    \/ SitemapDelayDone
    \/ SitemapFetchFailed
    \/ SitemapFetched
    \/ SitemapLoop
    \/ PostAfterSitemap
    \/ PostHtmlNext
    \/ HtmlEnter
    \/ HtmlDelayDone
    \/ HtmlFetchFailed
    \/ HtmlFetched
    \/ HtmlLoop
    \/ PostHtmlReturned
    \/ AloneReturned
    \/ Switch

SpecPair == InitPair /\ [][NextPair]_vars

-----------------------------------------------------------------------------
(* Vocabulary of the properties *)

\* the crawl has returned a result
Finished == pc = "done" /\ response.status = 200

\* the source is one the HTML crawl gives
IsHtmlSource(source) ==
    source # << >> /\ source[1] \in {"HTML_CRAWL:sitemap", "HTML_CRAWL:depth_"}

\* the source is a depth tag HTML_CRAWL:depth_N
IsDepthTag(source) == source # << >> /\ source[1] = "HTML_CRAWL:depth_"

\* two strings that are the same URL: they normalize identically
SameUrl(u, v) == normalizeUrl(u, Null) # Null /\ normalizeUrl(u, Null) = normalizeUrl(v, Null)

\* the filenames of a chain of sitemap URLs joined by "=>"
RECURSIVE PathOf(_)
PathOf(chain) ==
    IF Len(chain) = 1 THEN getFilename(chain[1])
    ELSE PathOf(Front(chain)) \o <<"=>">> \o getFilename(Last(chain))

\* the URL-set visits that list u
Listing(u) ==
    { i \in 1..Len(leafVisits) :
        \E k \in 1..Len(leafVisits[i].urls) : leafVisits[i].urls[k] = u }

\* positions in trace of the page fetches of crawlHtmlLinks
HtmlFetches ==
    { i \in 1..Len(trace) : trace[i].op = "fetch" /\ trace[i].by = "crawlHtmlLinks" }

\* the pages whose links the HTML crawl has extracted
CrawledPages ==
    { statusLog[i][3] : i \in { j \in 1..Len(statusLog) :
                                  statusLog[j][1] = "Found internal links on " } }
    \cup
    { statusLog[i][2] : i \in { j \in 1..Len(statusLog) :
                                  statusLog[j][1] = "No internal links found on " } }

\* the URLs the anchors of a page point to
LinkTargets(pageUrl) ==
    { normalizeUrl(PageDoc(world, pageUrl).hrefs[k], pageUrl) :
        k \in 1..Len(PageDoc(world, pageUrl).hrefs) } \ {Null}

\* the URLs of another origin that some crawled page links to
CrossLinks ==
    UNION { { q \in LinkTargets(page) : ~HasOrigin(ParseAbsolute(q), baseDomain) } :
            page \in CrawledPages }

\* the URLs of the base origin that some crawled page links to
SameOriginLinks ==
    UNION { { q \in LinkTargets(page) : HasOrigin(ParseAbsolute(q), baseDomain) } :
            page \in CrawledPages }

\* the sitemap phase recorded this URL
SitemapListed(u) == \E k \in 1..Len(sitemapUrls) : SameUrl(sitemapUrls[k], u)

-----------------------------------------------------------------------------
(* C1..C10 *)

\* C1: first-wins invariant.  No step of the crawl, by crawlSitemap or by
\* crawlHtmlLinks, removes a key of the shared map or changes the source
\* recorded for it.
C1_SourceNeverChanges ==
    [][ \A i \in 1..Len(globalUrls) :
          /\ MapHas(globalUrls', globalUrls[i].url)
          /\ MapGet(globalUrls', globalUrls[i].url).source = globalUrls[i].source ]_vars

\* C1 witness: the crawl is over, a URL of the map was listed again by a later
\* URL set, and the HTML crawl fetched a page that the sitemap had recorded.
C1_Witness ==
    /\ Finished
    /\ \E u \in { globalUrls[i].url : i \in 1..Len(globalUrls) } :
          Cardinality(Listing(u)) >= 2
    /\ \E i \in HtmlFetches : \E k \in 1..Len(sitemapUrls) : sitemapUrls[k] = trace[i].url

\* C2: first-wins ordering.  A URL listed by two URL sets reached by distinct
\* sitemap paths has, as its source, the path of the one visited first.
C2_FirstPathWins ==
    \A i \in 1..Len(leafVisits) : \A j \in 1..Len(leafVisits) :
      \A k \in 1..Len(leafVisits[i].urls) :
        ( /\ i < j
          /\ leafVisits[i].chain # leafVisits[j].chain
          /\ leafVisits[i].urls[k] # Null
          /\ Listing(leafVisits[i].urls[k]) # {}
          /\ i = Min(Listing(leafVisits[i].urls[k]))
          /\ j \in Listing(leafVisits[i].urls[k]) )
        => /\ MapHas(globalUrls, leafVisits[i].urls[k])
           /\ MapGet(globalUrls, leafVisits[i].urls[k]).source = PathOf(leafVisits[i].chain)

\* C2 witness: the crawl is over and some URL was listed by two URL sets
\* reached by paths with different names.
C2_Witness ==
    /\ Finished
    /\ \E i \in 1..Len(leafVisits) : \E j \in 1..Len(leafVisits) :
         /\ i < j
         /\ PathOf(leafVisits[i].chain) # PathOf(leafVisits[j].chain)
         /\ \E k \in 1..Len(leafVisits[i].urls) :
              /\ leafVisits[i].urls[k] # Null
              /\ i = Min(Listing(leafVisits[i].urls[k]))
              /\ j \in Listing(leafVisits[i].urls[k])

\* C3: dedup across phases.  The map holds no HTML_CRAWL:* entry for a URL
\* that the sitemap phase recorded.
C3_NoHtmlEntryForSitemapUrl ==
    \A i \in 1..Len(globalUrls) :
       IsHtmlSource(globalUrls[i].source) => ~SitemapListed(globalUrls[i].url)

\* C4: canonical URL identity.  Every url of the map is in normalized form
\* and no two entries normalize identically.
C4_CanonicalKeys ==
    /\ \A i \in 1..Len(globalUrls) :
          normalizeUrl(globalUrls[i].url, Null) = globalUrls[i].url
    /\ \A i \in 1..Len(globalUrls) : \A j \in 1..Len(globalUrls) :
          i # j => ~SameUrl(globalUrls[i].url, globalUrls[j].url)

\* C5: idempotent normalization.  For an input u on which normalizeUrl(u)
\* succeeds, normalizeUrl(normalizeUrl(u)) is normalizeUrl(u).
C5_Idempotent == (npc = "twice" /\ nBase = Null) => nTwice = nOnce

\* C6: depth bound.  No entry of the map has a source HTML_CRAWL:depth_N
\* with N >= maxDepth.
C6_DepthBound ==
    \A i \in 1..Len(globalUrls) :
       IsDepthTag(globalUrls[i].source)
         => globalUrls[i].source[2] \in { ToString(n) : n \in 0..(MaxDepth - 1) }

\* C6 witness: the crawl is over, an entry carries the deepest tag the limit
\* allows and a link one level deeper was cut off.
C6_Witness ==
    /\ Finished
    /\ \E i \in 1..Len(globalUrls) :
         globalUrls[i].source = <<"HTML_CRAWL:depth_", ToString(MaxDepth - 1)>>
    /\ \E i \in 1..Len(skipLog) :
         skipLog[i].line = "Max depth reached" /\ skipLog[i].depth = MaxDepth

\* the depth-tagged entries of the map
DepthTagged == { i \in 1..Len(globalUrls) : IsDepthTag(globalUrls[i].source) }

\* the crawl of the chain site is over and every fetch succeeded
ChainCrawled ==
    /\ Finished
    /\ world = "chain"
    /\ body.crawlHtmlLinks
    /\ failures = 0

\* C7 as stated: the chain of maxDepth + 5 pages yields exactly maxDepth
\* depth-tagged entries.
C7_ChainYieldsMaxDepth == ChainCrawled => Cardinality(DepthTagged) = MaxDepth

\* C7 amended: the chain of maxDepth + 5 pages yields exactly maxDepth - 1
\* depth-tagged entries, tagged depth_1 to depth_(maxDepth - 1), the seed
\* keeping its sitemap source.
C7_ChainYieldsMaxDepthLessOne ==
    ChainCrawled =>
      /\ Cardinality(DepthTagged) = MaxDepth - 1
      /\ { globalUrls[i].source[2] : i \in DepthTagged }
           = { ToString(n) : n \in 1..(MaxDepth - 1) }
      /\ ~IsHtmlSource(MapGet(globalUrls, ChainUrl(1)).source)

\* C7 witness: the chain crawl is over, every fetch succeeded, and the page
\* maxDepth links away from the seed was cut off by the depth limit.
C7_Witness ==
    /\ ChainCrawled
    /\ \E i \in 1..Len(skipLog) :
         /\ skipLog[i].line = "Max depth reached"
         /\ skipLog[i].url = ChainUrl(MaxDepth + 1)

\* a call of crawlHtmlLinks is about to run on a URL already in the visited
\* set
RevisitPending ==
    /\ Running("crawlHtmlLinks", "enter")
    /\ normalizeUrl(Top.url, Null) # Null
    /\ normalizeUrl(Top.url, Null) \in visitedUrls

\* C8: visited idempotence.  A call of crawlHtmlLinks on a URL whose
\* normalized form is in the visited set returns with no delay, no fetch and
\* the map, the visited set and both logs unchanged.
C8_RevisitIsNoOp ==
    [][ RevisitPending =>
          /\ stack' = Front(stack)
          /\ trace' = trace
          /\ globalUrls' = globalUrls
          /\ visitedUrls' = visitedUrls
          /\ statusLog' = statusLog
          /\ errorLog' = errorLog ]_vars

\* C8 witness: a call on a visited URL has returned early.
C8_Witness ==
    \E i \in 1..Len(skipLog) :
       /\ skipLog[i].line = "Already visited, skipping"
       /\ skipLog[i].normalizedUrl \in visitedUrls

\* C9: visited-once.  No URL is fetched twice by the HTML crawl.
C9_FetchedAtMostOnce ==
    \A i \in HtmlFetches : \A j \in HtmlFetches :
       trace[i].url = trace[j].url => i = j

\* C9 witness: the crawl of the leaf site is over; its seed, a page that
\* links to itself, was fetched once and its self-link was skipped.
C9_Witness ==
    /\ Finished
    /\ world = "leaf"
    /\ Cardinality({ i \in HtmlFetches : trace[i].url = A \o <<"/", "home">> }) = 1
    /\ \E i \in 1..Len(skipLog) :
         /\ skipLog[i].line = "Already visited, skipping"
         /\ skipLog[i].url = A \o <<"/", "home">>
         /\ skipLog[i].depth = 1

\* C10 as stated: a URL of another origin that a crawled page links to is
\* never fetched by the HTML crawl.
C10_CrossLinkNeverFetched ==
    \A q \in CrossLinks : \A i \in HtmlFetches : trace[i].url # q

\* C10 amended: only same-origin links are passed to crawlHtmlLinks at the
\* next depth, and a URL of another origin that a crawled page links to is
\* neither fetched by the HTML crawl nor in the map unless the sitemap
\* listed it.
C10_CrossLinkOnlyFromSitemap ==
    /\ \A n \in 1..Len(stack) :
         (stack[n].fn = "crawlHtmlLinks" /\ stack[n].currentDepth >= 1)
           => HasOrigin(ParseAbsolute(stack[n].url), baseDomain)
    /\ \A q \in CrossLinks :
         ( \/ \E i \in HtmlFetches : trace[i].url = q
           \/ MapHas(globalUrls, q) )
           => SitemapListed(q)

\* C10 witness: the crawl is over; a crawled page linked to a URL of another
\* origin that the sitemap did not list, and to a same-origin page that was
\* then fetched one level deeper.
C10_Witness ==
    /\ Finished
    /\ \E q \in CrossLinks : ~SitemapListed(q)
    /\ \E p \in SameOriginLinks : \E i \in HtmlFetches :
         trace[i].url = p /\ trace[i].depth >= 1

-----------------------------------------------------------------------------
(* C11..C20 *)

\* the URLs that the i-th URL-set visit was the first to list
FirstListed(i) ==
    { u \in { leafVisits[i].urls[k] : k \in 1..Len(leafVisits[i].urls) } \ {Null} :
        i = Min(Listing(u)) }

\* C11: source path format.  Every URL first found in a URL set has as its
\* source the filenames of the sitemaps on the path from the entry sitemap
\* down to that URL set, root first, joined by "=>"; a URL of the entry
\* sitemap itself has just the entry filename.
C11_SourceIsPathFromEntry ==
    \A i \in 1..Len(leafVisits) : \A u \in FirstListed(i) :
       /\ MapHas(globalUrls, u)
       /\ MapGet(globalUrls, u).source = PathOf(leafVisits[i].chain)
       /\ Len(leafVisits[i].chain) = 1
            => MapGet(globalUrls, u).source = getFilename(body.sitemapUrl)

\* C11 witness: the crawl of the deep site is over; x, listed by the leaf
\* two indexes down, has the three filenames in root-to-leaf order and y,
\* listed by a child of the entry index, has two.
C11_Witness ==
    /\ Finished
    /\ world = "deep"
    /\ MapHas(globalUrls, A \o <<"/", "x">>)
    /\ MapGet(globalUrls, A \o <<"/", "x">>).source
         = <<"index.xml", "=>", "mid.xml", "=>", "leaf.xml">>
    /\ MapHas(globalUrls, A \o <<"/", "y">>)
    /\ MapGet(globalUrls, A \o <<"/", "y">>).source = <<"index.xml", "=>", "top.xml">>

\* the sources stored in the map
Sources == { globalUrls[i].source : i \in 1..Len(globalUrls) }

\* C12: source never empty or delimiter-led.  When crawlSitemap is called
\* with an empty source path, a URL set records its own filename as the
\* source of its URLs and an index passes just the child's filename to each
\* child; no source in the map is empty or begins with "=>".
C12_SourceNeverEmpty ==
    /\ \A i \in 1..Len(leafVisits) : \A u \in FirstListed(i) :
          ~NotBlank(leafVisits[i].sourcePath)
            => /\ MapHas(globalUrls, u)
               /\ MapGet(globalUrls, u).source = getFilename(leafVisits[i].sitemapUrl)
    /\ \A n \in 2..Len(stack) :
          ~NotBlank(stack[n - 1].sourcePath)
            => stack[n].sourcePath = getFilename(stack[n].url)
    /\ \A source \in Sources : NotBlank(source) /\ Head(source) # "=>"

\* C12 witness: a direct call with an empty source path on a single URL set
\* has returned, and the URLs it listed are in the map.
C12_Witness ==
    /\ pc = "direct" /\ stack = << >>
    /\ globalUrls # << >>
    /\ \E i \in 1..Len(leafVisits) :
         /\ leafVisits[i].sourcePath = << >>
         /\ FirstListed(i) # {}

\* positions in trace of the document fetches of crawlSitemap
SitemapFetches ==
    { i \in 1..Len(trace) : trace[i].op = "fetch" /\ trace[i].by = "crawlSitemap" }

\* positions in errorLog of the fetch failures of crawlSitemap
SitemapErrors == { i \in 1..Len(errorLog) : errorLog[i][1] = "Error processing " }

\* the sitemap URLs whose fetch failed
FailedSitemaps == { errorLog[i][2] : i \in SitemapErrors }

\* the documents crawlSitemap got and classified: indexes, URL sets, others
ClassifiedCount ==
    Cardinality({ j \in 1..Len(statusLog) :
                    statusLog[j][1] \in {"Found nested sitemaps", "Found URLs"} })
    + Cardinality({ j \in 1..Len(errorLog) : errorLog[j][1] = "Unknown sitemap format in " })

\* the locations of the entries of an index, none for another document
ChildrenOf(doc) ==
    IF IsSitemapIndex(doc)
    THEN { extractUrl(doc.entries[k]) : k \in 1..Len(doc.entries) } \ {Null}
    ELSE {}

\* C13: node-local fetch failure.  When the crawl is over, every child of an
\* index that was read has been fetched, whichever of its siblings failed;
\* every URL of a URL set that was read is in the result; and each failed
\* fetch has exactly one entry in errorLog.
C13_FailureIsNodeLocal ==
    (pc = "done" /\ trace # << >>) =>
      /\ \A i \in SitemapFetches :
            trace[i].url \notin FailedSitemaps
              => \A child \in ChildrenOf(SitemapDoc(world, trace[i].url)) :
                    \E j \in SitemapFetches : j > i /\ trace[j].url = child
      /\ \A i \in 1..Len(leafVisits) : \A k \in 1..Len(leafVisits[i].urls) :
            leafVisits[i].urls[k] # Null => MapHas(response.urls, leafVisits[i].urls[k])
      /\ Cardinality(SitemapErrors) + ClassifiedCount = Cardinality(SitemapFetches)

\* C13 witness: the crawl of the tree site is over; the fetch of gone.xml
\* failed, with one entry in errorLog, and the URLs of a.xml, read before it,
\* and a fetch of a.xml after it are there.
C13_Witness ==
    /\ Finished
    /\ world = "tree"
    /\ Cardinality({ i \in SitemapErrors : errorLog[i][2] = A \o <<"/", "gone.xml">> }) = 1
    /\ MapHas(response.urls, A \o <<"/", "p1">>)
    /\ \E i \in SitemapFetches : \E j \in SitemapFetches :
         /\ i < j
         /\ trace[i].url = A \o <<"/", "gone.xml">>
         /\ trace[j].url = A \o <<"/", "a.xml">>

\* the request names a well-formed absolute URL
ValidRequest ==
    body.json /\ body.urlType = "string" /\ ParseAbsolute(body.sitemapUrl).ok

\* the heads of the lines of a log
Heads(log) == { log[i][1] : i \in 1..Len(log) }

\* C14: no traversal error aborts the crawl.  A request with a well-formed
\* entry URL never gets an error response; when its traversal is over it
\* gets the result with the urls, the status lines and the errors collected,
\* whatever failed on the way.
C14_TraversalNeverAborts ==
    ValidRequest =>
      /\ response.status \in {0, 200}
      /\ pc = "done" => /\ response.status = 200
                        /\ response.urls = globalUrls
                        /\ response.statusLines = statusLog
                        /\ response.errors = errorLog

\* C14 witness: the crawl of the tree site with HTML crawling is over and has
\* returned a result after a failed sitemap fetch, an unrecognized document,
\* a malformed entry and a failed page fetch.
C14_Witness ==
    /\ Finished
    /\ world = "tree"
    /\ body.crawlHtmlLinks
    /\ {"Error processing ", "Unknown sitemap format in ", "Error crawling HTML "}
         \subseteq Heads(response.errors)
    /\ "Warning: Failed to extract URL from entry: " \in Heads(response.statusLines)

VisitedAndReturned ==
    { u \in visitedUrls : \A n \in 1..Len(stack) : stack[n].normalizedUrl # u }

\* the URLs whose page fetch failed
FailedPages ==
    { errorLog[i][2] : i \in { j \in 1..Len(errorLog) :
                                  errorLog[j][1] = "Error crawling HTML " } }

\* the URLs whose page was not HTML
NonHtmlPages ==
    { statusLog[i][2] : i \in { j \in 1..Len(statusLog) :
                                   statusLog[j][1] = "Skipping non-HTML content: " } }

\* C16 as stated: whenever a call of crawlHtmlLinks that marked a URL visited
\* has returned, that URL is a key of the map.
C16_VisitedImpliesDiscovered ==
    \A u \in VisitedAndReturned : MapHas(globalUrls, u)

\* C16 amended: whenever a call of crawlHtmlLinks that marked a URL visited
\* has returned, that URL is a key of the map unless its fetch failed or its
\* content was not HTML.
C16_VisitedAndFetchedImpliesDiscovered ==
    \A u \in VisitedAndReturned :
       u \notin (FailedPages \cup NonHtmlPages) => MapHas(globalUrls, u)

\* C16 witness: the crawl is over; a key of the map was never visited, a
\* visited URL was added to the map by the HTML crawl, and a visited URL
\* whose fetch failed is not in the map.
C16_Witness ==
    /\ Finished
    /\ \E i \in 1..Len(globalUrls) : globalUrls[i].url \notin visitedUrls
    /\ \E u \in VisitedAndReturned :
         MapHas(globalUrls, u) /\ IsHtmlSource(MapGet(globalUrls, u).source)
    /\ \E u \in VisitedAndReturned : u \in FailedPages /\ ~MapHas(globalUrls, u)

\* C17: recoverable failures are logged to both logs.  Every message in
\* errorLog, of a fetch failure or of a document that could not be read as a
\* sitemap, is in statusLog as well.
C17_ErrorsAlsoInStatus ==
    \A i \in 1..Len(errorLog) : \E j \in 1..Len(statusLog) : statusLog[j] = errorLog[i]

\* the warnings of entries without location in a log
MalformedWarnings(log) ==
    { j \in 1..Len(log) : log[j][1] = "Warning: Failed to extract URL from entry: " }

\* the entries of a document that give no location
MalformedEntries(doc) ==
    { k \in 1..Len(doc.entries) : extractUrl(doc.entries[k]) = Null }

\* the locations the entries of a document give
Locations(doc) ==
    { extractUrl(doc.entries[k]) : k \in 1..Len(doc.entries) } \ {Null}

\* crawlSitemap holds the response of a URL set
UrlSetArrives ==
    /\ Running("crawlSitemap", "fetch")
    /\ IsUrlSet(SitemapDoc(world, Top.url))
    /\ Len(leafVisits') = Len(leafVisits) + 1

\* C18: malformed leaf entry is a warning.  Reading a URL set adds one
\* warning to statusLog for each entry without location, leaves errorLog
\* unchanged, and leaves the map with its keys and every location of the other
\* entries, those after the malformed one included, and nothing else.
C18_MalformedLeafEntryWarns ==
    [][ UrlSetArrives =>
          /\ Cardinality(MalformedWarnings(statusLog'))
               = Cardinality(MalformedWarnings(statusLog))
                 + Cardinality(MalformedEntries(SitemapDoc(world, Top.url)))
          /\ errorLog' = errorLog
          /\ { globalUrls'[i].url : i \in 1..Len(globalUrls') }
               = { globalUrls[i].url : i \in 1..Len(globalUrls) }
                 \cup Locations(SitemapDoc(world, Top.url)) ]_vars

\* C18 witness: a URL set with an entry without location between two good
\* ones has been read; the warning is logged and the URL after it is in the
\* map.
C18_Witness ==
    /\ MalformedWarnings(statusLog) # {}
    /\ \E i \in 1..Len(leafVisits) :
         /\ Len(leafVisits[i].urls) = 3
         /\ leafVisits[i].urls[1] # Null
         /\ leafVisits[i].urls[2] = Null
         /\ leafVisits[i].urls[3] # Null
         /\ MapHas(globalUrls, leafVisits[i].urls[3])

\* the loop of an index is at an entry that gives no location
MalformedIndexEntryNext ==
    /\ Running("crawlSitemap", "loop")
    /\ Top.i <= Len(Top.items)
    /\ extractUrl(Top.items[Top.i]) = Null

\* C19: malformed index entry is a warning.  When the loop of a sitemap index
\* passes an entry without location, one warning is added to statusLog,
\* errorLog is unchanged and the loop goes on to the next entry.
C19_MalformedIndexEntryWarns ==
    [][ MalformedIndexEntryNext =>
          /\ Len(statusLog') = Len(statusLog) + 1
          /\ errorLog' = errorLog
          /\ stack' = [stack EXCEPT ![Len(stack)].i = Top.i + 1] ]_vars

\* the URLs crawlHtmlLinks was invoked with at depth 0, in order
DepthZeroUrls ==
    LET IsSeedCall(c) == c.depth = 0
    IN  MapKeys(SelectSeq(htmlCalls, IsSeedCall))

\* the keys the sitemap phase put into the map, in insertion order
SitemapKeys ==
    LET FromSitemap(e) == ~IsHtmlSource(e.source)
    IN  MapKeys(SelectSeq(globalUrls, FromSitemap))

IsPrefix(s, t) == Len(s) <= Len(t) /\ SubSeq(t, 1, Len(s)) = s

\* C20: seed snapshot.  With HTML crawling enabled, the depth-0 invocations
\* of crawlHtmlLinks follow the keys the sitemap phase put into the map, in
\* insertion order, and when the crawl is over there has been exactly one for
\* each of these keys and none for a URL added by the HTML phase; with HTML
\* crawling disabled crawlHtmlLinks is never invoked.
C20_SeedsAreSitemapKeys ==
    /\ IsPrefix(DepthZeroUrls, SitemapKeys)
    /\ (Finished /\ body.crawlHtmlLinks) => DepthZeroUrls = SitemapKeys
    /\ ~body.crawlHtmlLinks => htmlCalls = << >>

\* C20 witness: a crawl with HTML crawling is over; the sitemap phase gave
\* several seeds, the HTML phase added URLs of its own and followed links.
C20_Witness ==
    /\ Finished
    /\ body.crawlHtmlLinks
    /\ Len(SitemapKeys) >= 2
    /\ Len(globalUrls) > Len(SitemapKeys)
    /\ Len(DepthZeroUrls) = Len(SitemapKeys)
    /\ Len(htmlCalls) > Len(DepthZeroUrls)

-----------------------------------------------------------------------------
(* C21..C30 *)

\* crawlHtmlLinks holds the response of a page and adds it to the map
HtmlInsertion ==
    /\ Running("crawlHtmlLinks", "fetch")
    /\ Len(globalUrls') = Len(globalUrls) + 1

\* C21: HTML source tag.  A URL added to the map by crawlHtmlLinks is the
\* URL of the page the call fetched; its source is HTML_CRAWL:sitemap when
\* the call is that of a seed, and HTML_CRAWL:depth_N when the call is N >= 1
\* links away from the call of a seed.
C21_HtmlSourceTag ==
    [][ HtmlInsertion =>
          /\ \A n \in 1..Len(stack) :
                stack[n].fn = "crawlHtmlLinks" /\ stack[n].currentDepth = n - 1
          /\ globalUrls'[Len(globalUrls')].url = Top.normalizedUrl
          /\ Len(stack) = 1
               => globalUrls'[Len(globalUrls')].source = <<"HTML_CRAWL:sitemap">>
          /\ Len(stack) > 1
               => globalUrls'[Len(globalUrls')].source
                    = <<"HTML_CRAWL:depth_", ToString(Len(stack) - 1)>> ]_vars

\* C21 witness: the crawl of the leaf site is over; the seed docs was added
\* with HTML_CRAWL:sitemap and guide, one link away, with HTML_CRAWL:depth_1.
C21_Witness ==
    /\ Finished
    /\ world = "leaf"
    /\ MapHas(globalUrls, A \o <<"/", "docs">>)
    /\ MapGet(globalUrls, A \o <<"/", "docs">>).source = <<"HTML_CRAWL:sitemap">>
    /\ MapHas(globalUrls, A \o <<"/", "guide">>)
    /\ MapGet(globalUrls, A \o <<"/", "guide">>).source = <<"HTML_CRAWL:depth_", "1">>

\* crawlHtmlLinks holds a response whose content type is not HTML
NonHtmlArrives ==
    /\ Running("crawlHtmlLinks", "fetch")
    /\ PageDoc(world, Top.normalizedUrl).exists
    /\ \A k \in 1..Len(PageDoc(world, Top.normalizedUrl).contentType) :
          PageDoc(world, Top.normalizedUrl).contentType[k] # "text/html"
    /\ failures' = failures

\* C22: non-HTML response.  When the page fetched by crawlHtmlLinks is not
\* HTML, the call adds one line to statusLog and returns: the map and
\* errorLog are unchanged, and there is no further call, delay or fetch.
C22_NonHtmlIsSkipped ==
    [][ NonHtmlArrives =>
          /\ statusLog' = Append(statusLog,
                <<"Skipping non-HTML content: ", Top.normalizedUrl,
                  PageDoc(world, Top.normalizedUrl).contentType>>)
          /\ globalUrls' = globalUrls
          /\ errorLog' = errorLog
          /\ stack' = Front(stack)
          /\ htmlCalls' = htmlCalls
          /\ trace' = trace ]_vars

\* C22 witness: the crawl of the leaf site is over; file.pdf, linked from
\* guide, was fetched and skipped, it is not in the map, and the page it
\* points to was never called.
C22_Witness ==
    /\ Finished
    /\ world = "leaf"
    /\ A \o <<"/", "file.pdf">> \in NonHtmlPages
    /\ ~MapHas(globalUrls, A \o <<"/", "file.pdf">>)
    /\ \A i \in 1..Len(htmlCalls) : htmlCalls[i].url # A \o <<"/", "hidden">>

\* C23: result assembly.  The result holds the entries of the map in the
\* order of their insertion, those of the sitemap phase in the order of
\* their first listing and before those of the HTML phase, with pairwise
\* distinct url strings; its last status line is the completion message with
\* the number of these entries; its errors are errorLog and its sitemapUrl
\* is the entry URL of the request.
C23_ResultAssembly ==
    Finished =>
      /\ response.urls = globalUrls
      /\ \A i \in 1..Len(response.urls) : \A j \in 1..Len(response.urls) :
            /\ response.urls[i].url = response.urls[j].url => i = j
            /\ (i < j /\ ~IsHtmlSource(response.urls[j].source))
                 => /\ ~IsHtmlSource(response.urls[i].source)
                    /\ Listing(response.urls[i].url) # {}
                    /\ Listing(response.urls[j].url) # {}
                    /\ Min(Listing(response.urls[i].url))
                         <= Min(Listing(response.urls[j].url))
      /\ response.statusLines # << >>
      /\ Last(response.statusLines)
           = <<"Crawl completed. Total unique URLs found: ", Len(response.urls)>>
      /\ response.errors = errorLog
      /\ response.sitemapUrl = body.sitemapUrl

\* C23 witness: a crawl with HTML crawling has returned a result with
\* entries of both phases and a logged error.
C23_Witness ==
    /\ Finished
    /\ Len(response.urls) >= 3
    /\ \E i \in 1..Len(response.urls) : IsHtmlSource(response.urls[i].source)
    /\ \E i \in 1..Len(response.urls) : ~IsHtmlSource(response.urls[i].source)
    /\ response.errors # << >>

\* C24: politeness delay ordering.  With a positive delay every fetch, of a
\* sitemap or of a page, comes right after one delay of the same call, and
\* every delay is followed by the fetch of its call, so that no two fetches
\* are issued without a delay between them; with delay 0 there is no delay.
C24_DelayBeforeEveryFetch ==
    /\ body.delay > 0 =>
         \A i \in 1..Len(trace) :
            /\ trace[i].op = "fetch"
                 => /\ i > 1
                    /\ trace[i - 1].op = "delay"
                    /\ trace[i - 1].by = trace[i].by
                    /\ trace[i - 1].depth = trace[i].depth
            /\ (trace[i].op = "delay" /\ i < Len(trace)) => trace[i + 1].op = "fetch"
    /\ body.delay = 0 => \A i \in 1..Len(trace) : trace[i].op = "fetch"

\* C24 witness: a crawl with a positive delay and HTML crawling is over,
\* after several fetches of sitemaps and of pages.
C24_Witness ==
    /\ Finished
    /\ body.delay > 0
    /\ Cardinality(SitemapFetches) >= 2
    /\ Cardinality(HtmlFetches) >= 2
    /\ Len(trace) = 2 * (Cardinality(SitemapFetches) + Cardinality(HtmlFetches))

\* the calls that wait for a delay or a response
Outstanding == { n \in 1..Len(stack) : stack[n].pc \in {"delay", "fetch"} }

\* the URL a loop handed to the call it made last
LastHandedOut(f) ==
    IF f.fn = "crawlSitemap" THEN extractUrl(f.items[f.i - 1]) ELSE f.items[f.i - 1]

\* C25: strictly sequential traversal.  At most one delay or fetch is
\* outstanding; every pending call but the innermost waits in its loop for
\* the call it made for its latest entry, so the subtree of one child or
\* link is finished before the next sibling, link or seed is started; and
\* no call of crawlHtmlLinks is made before crawlSitemap has returned to
\* POST.
C25_StrictlySequential ==
    /\ Cardinality(Outstanding) <= 1
    /\ \A n \in 1..(Len(stack) - 1) :
          /\ stack[n].pc = "loop"
          /\ stack[n].i > 1
          /\ stack[n + 1].fn = stack[n].fn
          /\ stack[n + 1].url = LastHandedOut(stack[n])
    /\ \A i \in 1..Len(trace) : \A j \in 1..Len(trace) :
          (i < j /\ trace[i].by = "crawlHtmlLinks") => trace[j].by = "crawlHtmlLinks"
    /\ pc = "sitemap" => htmlCalls = << >>
    /\ \A n \in 1..Len(stack) :
          /\ stack[n].fn = "crawlSitemap" => pc = "sitemap"
          /\ stack[n].fn = "crawlHtmlLinks" => pc = "htmlCall"
    /\ (pc = "htmlCall" /\ stack # << >>) => stack[1].url = sitemapUrls[crawledCount + 1]

\* C25 witness: in the HTML phase a page two links away from a seed is
\* being fetched while the two calls above it wait in their loops, one of
\* them with links left, and a seed is left.
C25_Witness ==
    /\ pc = "htmlCall"
    /\ Len(stack) = 3
    /\ Top.pc = "fetch"
    /\ \E n \in 1..2 : stack[n].i <= Len(stack[n].items)
    /\ crawledCount + 1 < Len(sitemapUrls)
    /\ SitemapFetches # {}

\* the number of times crawlSitemap requested the document at url
FetchCount(url) == Cardinality({ i \in SitemapFetches : trace[i].url = url })

\* the number of times crawlSitemap got and read the document at url
ReadCount(url) ==
    FetchCount(url) - Cardinality({ i \in SitemapErrors : errorLog[i][2] = url })

\* the references to url that crawlSitemap came across: one for each entry
\* naming it, each time the index holding the entry was read
References(url) ==
    { <<d, r, k>> \in { trace[i].url : i \in SitemapFetches }
                       \X (1..Len(trace)) \X (1..Len(trace)) :
        /\ IsSitemapIndex(SitemapDoc(world, d))
        /\ r <= ReadCount(d)
        /\ k <= Len(SitemapDoc(world, d).entries)
        /\ extractUrl(SitemapDoc(world, d).entries[k]) = url }

\* C26: no revisit protection for sitemaps.  When the crawl is over every
\* sitemap has been fetched once for each reference to it in an index that
\* was read (and once more if it is the entry), however often it was
\* fetched before; and the crawl of an index that refers back to itself
\* through its child never comes to return a result while every fetch
\* succeeds.
C26_NoSitemapRevisitProtection ==
    /\ pc = "done" =>
         \A i \in SitemapFetches :
            FetchCount(trace[i].url)
              = Cardinality(References(trace[i].url))
                + (IF trace[i].url = body.sitemapUrl THEN 1 ELSE 0)
    /\ (world = "ring" /\ failures = 0) => ~Finished

\* C26 witness: the crawl of the tree site is over and a.xml, named by two
\* entries of the index, was fetched and read twice.
C26_Witness ==
    /\ Finished
    /\ world = "tree"
    /\ FetchCount(A \o <<"/", "a.xml">>) = 2
    /\ ReadCount(A \o <<"/", "a.xml">>) = 2

\* a call of crawlHtmlLinks is about to run at the depth limit or on a URL
\* that cannot be normalized
EarlyReturnPending ==
    /\ Running("crawlHtmlLinks", "enter")
    /\ \/ Top.currentDepth >= MaxDepth
       \/ normalizeUrl(Top.url, Null) = Null

\* C29: silent early return.  A call of crawlHtmlLinks at depth >= maxDepth
\* or on a URL that fails normalization returns with no delay, no fetch and
\* the visited set, the map and both logs unchanged.
C29_EarlyReturnIsSilent ==
    [][ EarlyReturnPending =>
          /\ stack' = Front(stack)
          /\ trace' = trace
          /\ visitedUrls' = visitedUrls
          /\ globalUrls' = globalUrls
          /\ statusLog' = statusLog
          /\ errorLog' = errorLog ]_vars

\* C29 witness: the crawl of the leaf site is over; the seed "about", which
\* is no absolute URL, was passed to crawlHtmlLinks and is not visited.
C29_Witness ==
    /\ Finished
    /\ world = "leaf"
    /\ \E i \in 1..Len(skipLog) :
         /\ skipLog[i].line = "Failed to normalize URL"
         /\ skipLog[i].url = <<"about">>
         /\ skipLog[i].depth = 0
    /\ <<"about">> \notin visitedUrls
    /\ \A i \in 1..Len(trace) : trace[i].url # <<"about">>

\* crawlSitemap holds a document that is neither an index with entries nor
\* a URL set with entries
UnknownArrives ==
    /\ Running("crawlSitemap", "fetch")
    /\ SitemapDoc(world, Top.url).root # "none"
    /\ ~IsSitemapIndex(SitemapDoc(world, Top.url))
    /\ ~IsUrlSet(SitemapDoc(world, Top.url))
    /\ failures' = failures

\* C30: unrecognized document.  When the document fetched by crawlSitemap
\* is neither a sitemap index with <sitemap> entries nor a URL set with
\* <url> entries, one error naming the sitemap URL is added to errorLog, the
\* map is unchanged, and the call returns without a further call.
C30_UnknownDocumentIsAnError ==
    [][ UnknownArrives =>
          /\ errorLog' = Append(errorLog, <<"Unknown sitemap format in ", Top.url>>)
          /\ globalUrls' = globalUrls
          /\ leafVisits' = leafVisits
          /\ stack' = Front(stack)
          /\ trace' = trace ]_vars

\* C30 witness: the crawl of the tree site is over; c.xml, an HTML page
\* served in place of a sitemap, gave one error, and the sitemap named after
\* it in the index was fetched.
C30_Witness ==
    /\ Finished
    /\ world = "tree"
    /\ Cardinality({ i \in 1..Len(errorLog) :
                       errorLog[i] = <<"Unknown sitemap format in ", A \o <<"/", "c.xml">> >> }) = 1
    /\ \E i \in SitemapFetches : \E j \in SitemapFetches :
         /\ i < j
         /\ trace[i].url = A \o <<"/", "c.xml">>
         /\ trace[j].url = A \o <<"/", "gone.xml">>

\* the members of an object but its sitemapUrl
OwnMembers(value) ==
    LET NotSitemapUrl(m) == m.name # <<"sitemapUrl">>
    IN  SelectSeq(value.items, NotSitemapUrl)

\* the successful saves, since the last clear, whose sitemap URL has the
\* filename key
SavedUnder(key) == { i \in 1..Len(latest) : getFilename(latest[i].sitemapUrl) = key }

\* C28: save/load round trip keyed by filename.  A load that reaches the
\* store, of a key that is the filename of a sitemap URL saved since the last
\* clear, returns the results of the latest such save and nothing of an
\* earlier one: the same fields with the same values, and the field
\* sitemapUrl holding the sitemap URL of that save.
C28_SaveLoadRoundTrip ==
    (lastOp.op = "load" /\ lastOp.status # 500 /\ SavedUnder(lastOp.key) # {}) =>
      /\ lastOp.status = 200
      /\ lastOp.results.kind = "object"
      /\ OwnMembers(lastOp.results) = OwnMembers(latest[Max(SavedUnder(lastOp.key))].results)
      /\ Len(lastOp.results.items) = Len(OwnMembers(lastOp.results)) + 1
      /\ \E k \in 1..Len(lastOp.results.items) :
            lastOp.results.items[k]
              = Member(<<"sitemapUrl">>,
                       JString(latest[Max(SavedUnder(lastOp.key))].sitemapUrl))

\* C28 witness: root.xml was loaded after two saves of sitemap URLs with
\* that filename; the load returned the later one, whose results carried the
\* sitemapUrl of an earlier crawl.
C28_Witness ==
    /\ lastOp.op = "load"
    /\ lastOp.status = 200
    /\ lastOp.key = <<"root.xml">>
    /\ Cardinality(SavedUnder(lastOp.key)) = 2
    /\ \E k \in 1..Len(latest[Max(SavedUnder(lastOp.key))].results.items) :
         latest[Max(SavedUnder(lastOp.key))].results.items[k].name = <<"sitemapUrl">>
    /\ latest[1].results # latest[2].results

\* C27: stateless per invocation.  When two invocations of the crawl run in
\* one process with their awaits interleaved in any way, each returns the
\* response it returned when it ran alone against the same site.
C27_InvocationsIsolated ==
    phase = "both" =>
      /\ pc = "done" => response = alone[turn]
      /\ parked.pc = "done" => parked.response = alone[3 - turn]

\* C27 witness: two invocations that interleaved in mid-crawl have both
\* returned a result, each with URLs and the two results different.
C27_Witness ==
    /\ phase = "both"
    /\ mixed
    /\ pc = "done" /\ response.status = 200 /\ response.urls # << >>
    /\ parked.pc = "done" /\ parked.response.status = 200 /\ parked.response.urls # << >>
    /\ response.urls # parked.response.urls

-----------------------------------------------------------------------------
(* getRedisClient: the connection handle shared by the persistence routes *)

\* createRedisClient(): a client that is not open
NewSocket == [isOpen |-> FALSE, isReady |-> FALSE]

\* a catch block that keeps the handle
KeepHandle(h) == h

\* client = null in the catch block
ResetHandle(h) == NoClient

\* one entry of the record of calls
CallEvent(c, at, did, h, made, before, after) ==
    [by |-> c, at |-> at, did |-> did, h |-> h, made |-> made,
     before |-> before, after |-> after]

\* the calls of getRedisClient begun so far
Begun == Cardinality({ i \in 1..Len(calls) : calls[i].at = "entry" })

\* the connections lost so far
Closures == Cardinality({ i \in 1..Len(calls) : calls[i].at = "env" })

\* getRedisClient with the handle h it works on and the clients there are
\* once a missing client is created: connect when it is not open, else
\* return.  connect() marks the client open before its promise settles.
GetWith(c, h, made, socks) ==
    /\ client' = h
    /\ IF ~socks[h].isOpen
       THEN /\ sockets' = [socks EXCEPT ![h].isOpen = TRUE]
            /\ callers' = [callers EXCEPT ![c] = [pc |-> "connecting", h |-> h]]
            /\ calls' = Append(calls, CallEvent(c, "entry", "connect", h, made, client, h))
       ELSE /\ sockets' = socks
            /\ callers' = callers
            /\ calls' = Append(calls, CallEvent(c, "entry", "return", h, made, client, h))

\* a call of getRedisClient up to its await, or to its return when the
\* client is open
GetRedisClient ==
    /\ phase = "client"
    /\ Begun < MaxCalls
    /\ \E c \in Callers :
         /\ callers[c].pc = "idle"
         /\ IF client = NoClient
            THEN GetWith(c, Len(sockets) + 1, TRUE, Append(sockets, NewSocket))
            ELSE GetWith(c, client, FALSE, sockets)
    /\ UNCHANGED << crawlVars, normVars, pairVars, storeVars >>

\* client.connect() resolved: the function returns what the handle holds now
Connected ==
    /\ phase = "client"
    /\ \E c \in Callers :
         /\ callers[c].pc = "connecting"
         /\ sockets' = [sockets EXCEPT ![callers[c].h].isReady = TRUE]
         /\ callers' = [callers EXCEPT ![c] = Outside]
         /\ calls' = Append(calls, CallEvent(c, "resume", "return", client, FALSE,
                                             client, client))
    /\ UNCHANGED client
    /\ UNCHANGED << crawlVars, normVars, pairVars, storeVars >>

\* client.connect() rejected: the catch block resets the handle and rethrows;
\* whether the failed client still counts as open is the library's affair
ConnectFailed ==
    /\ phase = "client"
    /\ \E c \in Callers : \E open \in BOOLEAN :
         /\ callers[c].pc = "connecting"
         /\ sockets' = [sockets EXCEPT ![callers[c].h].isOpen = open]
         /\ callers' = [callers EXCEPT ![c] = Outside]
         /\ client' = ResetHandle(client)
         /\ calls' = Append(calls, CallEvent(c, "resume", "throw", callers[c].h, FALSE,
                                             client, ResetHandle(client)))
    /\ UNCHANGED << crawlVars, normVars, pairVars, storeVars >>

\* the connection of a ready client is lost for good: the reconnect strategy
\* gives up and the client is no longer open
ConnectionLost ==
    /\ phase = "client"
    /\ Closures < MaxClosures
    /\ \E h \in 1..Len(sockets) :
         /\ sockets[h].isReady
         /\ sockets' = [sockets EXCEPT ![h] = NewSocket]
         /\ calls' = Append(calls, CallEvent(0, "env", "lost", h, FALSE, client, client))
    /\ UNCHANGED << client, callers >>
    /\ UNCHANGED << crawlVars, normVars, pairVars, storeVars >>

InitClient ==
    /\ world = "leaf"
    /\ body = [json |-> FALSE, urlType |-> "undefined", sitemapUrl |-> << >>,
               delay |-> DefaultDelay, crawlHtmlLinks |-> FALSE]
    /\ pc = "off"
    /\ baseDomain = Null
    /\ sitemapUrls = << >>
    /\ crawledCount = 0
    /\ response = NoResponse
    /\ globalUrls = << >>
    /\ visitedUrls = {}
    /\ statusLog = << >>
    /\ errorLog = << >>
    /\ stack = << >>
    /\ trace = << >>
    /\ leafVisits = << >>
    /\ failures = 0
    /\ skipLog = << >>
    /\ htmlCalls = << >>
    /\ NormOff
    /\ parked = [pc |-> "off"]
    /\ turn = 1
    /\ phase = "client"
    /\ alone = << >>
    /\ mixed = FALSE
    /\ StoreOff
    /\ ClientOff

NextClient ==
    \/ GetRedisClient
    \/ Connected
    \/ ConnectFailed
    \/ ConnectionLost

SpecClient == InitClient /\ [][NextClient]_vars

-----------------------------------------------------------------------------
(* C31..C40 *)

\* C31: the HTML phase terminates.  Once the seed loop has started, over
\* sites whose pages link in cycles, to themselves and to missing pages, the
\* crawl comes to return its result.
C31_HtmlPhaseTerminates == (pc \in {"htmlLoop", "htmlCall"}) ~> Finished

\* C31 witness: the crawl of the tree site with HTML crawling is over; a page
\* fetch failed, and a page reached again through a cycle of links was
\* skipped two links away from its seed.
C31_Witness ==
    /\ Finished
    /\ world = "tree"
    /\ body.crawlHtmlLinks
    /\ FailedPages # {}
    /\ \E i \in 1..Len(skipLog) :
         /\ skipLog[i].line = "Already visited, skipping"
         /\ skipLog[i].depth >= 2

\* C32: the sitemap phase terminates on acyclic input.  Over the sites
\* without a cycle of indexes crawlSitemap comes to return to POST, and from
\* then on the map holds every location listed by every URL set that was
\* fetched and read.
C32_SitemapPhaseTerminates ==
    /\ (pc = "sitemap" /\ world # "ring") ~> (pc # "sitemap")
    /\ [](pc \in {"htmlLoop", "htmlCall", "done"} =>
            \A i \in 1..Len(leafVisits) : \A k \in 1..Len(leafVisits[i].urls) :
               leafVisits[i].urls[k] # Null => MapHas(globalUrls, leafVisits[i].urls[k]))

\* C32 witness: crawlSitemap has returned from the tree site after a failed
\* fetch of a sitemap, with the URL sets read before and after it.
C32_Witness ==
    /\ pc \in {"htmlLoop", "done"}
    /\ world = "tree"
    /\ FailedSitemaps # {}
    /\ Len(leafVisits) >= 3
    /\ \E i \in 1..Len(leafVisits) : \E k \in 1..Len(leafVisits[i].urls) :
         leafVisits[i].urls[k] = Null

\* the calls of crawlHtmlLinks that were turned away for a URL already visited
Revisits(u) ==
    { i \in 1..Len(skipLog) : /\ skipLog[i].line = "Already visited, skipping"
                              /\ skipLog[i].normalizedUrl = u }

\* C33: no retry of failed fetches.  A URL whose page fetch failed stays
\* marked visited and has been requested once, however often crawlHtmlLinks
\* was called for it afterwards as a seed or as a link of another page.
C33_NoRetryOfFailedFetch ==
    \A u \in FailedPages :
       /\ u \in visitedUrls
       /\ Cardinality({ i \in HtmlFetches : trace[i].url = u }) = 1

\* C33 witness: the crawl is over; the fetch of a page failed and a later call
\* of crawlHtmlLinks for that page, made for a link of another page, was
\* turned away.
C33_Witness ==
    /\ Finished
    /\ \E u \in FailedPages : \E i \in Revisits(u) : skipLog[i].depth >= 1

\* the pages the HTML page at u links to within the site, as crawlHtmlLinks
\* would name them
LinksOf(u) ==
    IF PageDoc(world, u).exists /\ IsHtml(PageDoc(world, u).contentType)
    THEN LET links == extractInternalLinks(PageDoc(world, u).hrefs, u, baseDomain)
         IN  { normalizeUrl(links[k], Null) : k \in 1..Len(links) } \ {Null}
    ELSE {}

\* the URLs reached from the set S by paths of at most n links
RECURSIVE WithinLinks(_, _)
WithinLinks(S, n) ==
    IF n = 0 THEN S
    ELSE WithinLinks(S \cup UNION { LinksOf(u) : u \in S }, n - 1)

\* the pages reachable from some seed by a path of fewer than maxDepth links
WithinDepthBudget ==
    { u \in WithinLinks({ normalizeUrl(sitemapUrls[i], Null) : i \in 1..Len(sitemapUrls) }
                           \ {Null},
                        MaxDepth - 1) : PageDoc(world, u).exists }

\* C34 as stated: discovery completeness within the depth budget.  When a
\* crawl with HTML crawling is over and every page fetch gave HTML, every page
\* reachable from a seed by fewer than maxDepth links is a key of the map.
C34_DiscoveryComplete ==
    (/\ Finished
     /\ body.crawlHtmlLinks
     /\ FailedPages = {}
     /\ NonHtmlPages = {})
    => \A u \in WithinDepthBudget : MapHas(globalUrls, u)

\* the seeds as crawlHtmlLinks names them
NormalizedSeeds ==
    { normalizeUrl(sitemapUrls[i], Null) : i \in 1..Len(sitemapUrls) } \ {Null}

\* C35 as stated: origin scoping of fetches.  Every URL the HTML crawl
\* fetches, at any depth, and every entry of the map with an HTML_CRAWL source
\* has the origin of the entry sitemap URL.
C35_EveryFetchWithinOrigin ==
    /\ \A i \in HtmlFetches : HasOrigin(ParseAbsolute(trace[i].url), baseDomain)
    /\ \A k \in 1..Len(globalUrls) :
         IsHtmlSource(globalUrls[k].source)
           => HasOrigin(ParseAbsolute(globalUrls[k].url), baseDomain)

\* C35 amended: every URL fetched one link or more from a seed, and every
\* entry with a depth tag, has the origin of the entry sitemap URL; a fetch
\* at depth 0 and an entry tagged HTML_CRAWL:sitemap is a seed taken from the
\* sitemap, normalized, whatever its origin.
C35_LinkFetchesWithinOrigin ==
    /\ \A i \in HtmlFetches :
         IF trace[i].depth >= 1
         THEN HasOrigin(ParseAbsolute(trace[i].url), baseDomain)
         ELSE trace[i].url \in NormalizedSeeds
    /\ \A k \in 1..Len(globalUrls) :
         /\ Head(globalUrls[k].source) = "HTML_CRAWL:depth_"
              => HasOrigin(ParseAbsolute(globalUrls[k].url), baseDomain)
         /\ Head(globalUrls[k].source) = "HTML_CRAWL:sitemap"
              => globalUrls[k].url \in NormalizedSeeds

\* C35 witness: the crawl of the bare site is over; the seed of another
\* origin that the sitemap listed was fetched at depth 0 and entered the map
\* with the tag HTML_CRAWL:sitemap, the links of its page were not followed
\* to its own origin, and a page of the site was fetched one link from a seed.
C35_Witness ==
    /\ Finished
    /\ world = "bare"
    /\ \E i \in HtmlFetches :
         trace[i].url = B \o <<"/", "q">> /\ trace[i].depth = 0
    /\ \E k \in 1..Len(globalUrls) :
         /\ globalUrls[k].url = B \o <<"/", "q">>
         /\ globalUrls[k].source = <<"HTML_CRAWL:sitemap">>
    /\ \E i \in HtmlFetches :
         trace[i].url = A \o <<"/", "y">> /\ trace[i].depth = 1
    /\ \A i \in HtmlFetches : trace[i].url # B \o <<"/", "z">>

\* C36 as stated: an empty leaf is not an error.  errorLog names a document
\* as being of unknown format only when it is neither a URL set nor an index;
\* a URL set or an index without entries adds nothing to errorLog.
C36_EmptyLeafIsNoError ==
    \A j \in 1..Len(errorLog) :
       errorLog[j][1] = "Unknown sitemap format in "
         => SitemapDoc(world, errorLog[j][2]).root \notin {"urlset", "sitemapindex"}

\* a line of statusLog that begins with "Warning:"
IsWarning(line) ==
    line[1] \in {"Warning: Failed to extract URL from entry: ",
                 "Warning: Found URL entries but extracted 0 URLs"}

\* C37 as stated: warnings mean malformed entries.  A step appends a line
\* beginning with "Warning:" to statusLog only when it processes a URL set
\* one of whose entries gave no location.
C37_WarningsMeanMalformed ==
    [][ (\E j \in (Len(statusLog) + 1)..Len(statusLog') : IsWarning(statusLog'[j]))
          => /\ Len(leafVisits') = Len(leafVisits) + 1
             /\ \E k \in 1..Len(Last(leafVisits').urls) :
                  Last(leafVisits').urls[k] = Null ]_vars

\* the clients created by the first i calls
Created(i) == Cardinality({ j \in 1..i : calls[j].made })

\* the entries of the record made by getRedisClient itself
OwnCalls == { i \in 1..Len(calls) : calls[i].at # "env" }

\* what the record of calls shows of getRedisClient
HandleDiscipline ==
    /\ \A i \in OwnCalls :
         /\ calls[i].made <=> (calls[i].at = "entry" /\ calls[i].before = NoClient)
         /\ calls[i].made => calls[i].h = Created(i)
         /\ calls[i].did = "return" =>
              /\ calls[i].h # NoClient
              /\ calls[i].h = calls[i].after
              /\ calls[i].before # NoClient => calls[i].h = calls[i].before
         /\ calls[i].did = "throw" =>
              /\ calls[i].after = NoClient
              /\ \A j \in OwnCalls :
                   (j > i /\ \A k \in OwnCalls : ~(i < k /\ k < j))
                     => /\ calls[j].made
                        /\ calls[j].h # calls[i].h
    /\ \A c \in Callers :
         callers[c].pc = "connecting" => callers[c].h = client

\* a step in which a call begins connects the client exactly when the client
\* is new or was not open
ConnectsOnlyWhenNotOpen ==
    (Len(calls') = Len(calls) + 1 /\ Last(calls').at = "entry")
      => (Last(calls').did = "connect"
            <=> (Last(calls').made \/ ~sockets[Last(calls').h].isOpen))

\* C38: lazy connection handle with reset on failure.  getRedisClient creates
\* a client exactly when the handle is null, and then a new one; what it
\* returns is the client the handle holds, the one it held before when there
\* was one; it connects only a client that is not open; when connecting fails
\* it throws and leaves the handle null, so that the call after it creates a
\* fresh client.
C38_LazyHandleResetOnFailure ==
    /\ []HandleDiscipline
    /\ [][ConnectsOnlyWhenNotOpen]_vars

\* C38 witness: a connection attempt failed, the call after it created the
\* second client and got it once connected, a later call got the same client
\* without connecting, and after the connection was lost a call connected
\* that client again.
C38_Witness ==
    \E i, j, k, l \in 1..Len(calls) :
       /\ i < j /\ j < k /\ k < l
       /\ calls[i].did = "throw"
       /\ calls[j].made /\ calls[j].h = 2
       /\ calls[k].at = "entry" /\ calls[k].did = "return" /\ calls[k].h = 2
       /\ calls[l].at = "entry" /\ calls[l].did = "connect" /\ ~calls[l].made
       /\ calls[l].h = 2

\* C39 as stated: saves do not clobber other crawls.  A successful save of
\* one sitemap URL leaves the stored value unchanged under the key of every
\* result saved before from a different sitemap URL.
C39_SaveKeepsOtherCrawls ==
    [][ (lastOp'.op = "save" /\ lastOp'.status = 200) =>
          \A i \in 1..Len(latest) :
             latest[i].sitemapUrl # Last(latest').sitemapUrl
               => store'[SaveKey(latest[i].sitemapUrl)] = store[SaveKey(latest[i].sitemapUrl)]
      ]_vars

\* the body of a keys response that lists no key
NoKeys == KeysBody(<< >>)

\* C40: clear empties the store.  A clear that reports success leaves no key,
\* and reports as deletedCount the number of keys there were, 0 for an empty
\* store, which it leaves as it is; as long as no save has succeeded since,
\* a load that reaches the store answers 404 and the keys route lists no key.
C40_ClearEmptiesStore ==
    /\ [][ (lastOp'.op = "clear" /\ lastOp'.status = 200) =>
             /\ DOMAIN store' = {}
             /\ lastOp'.deletedCount = Cardinality(DOMAIN store)
             /\ DOMAIN store = {} => (lastOp'.deletedCount = 0 /\ store' = store) ]_vars
    /\ [](latest = << >> =>
             /\ (lastOp.op = "load" /\ lastOp.status \notin {400, 500})
                  => lastOp.status = 404
             /\ (lastOp.op = "keys" /\ lastOp.status = 200)
                  => lastOp.results = NoKeys)

\* C40 witness: a clear has just reported success for a store that held the
\* results of two crawls under two keys.
C40_Witness ==
    /\ lastOp.op = "clear"
    /\ lastOp.status = 200
    /\ lastOp.deletedCount = 2
    /\ DOMAIN store = {}

====
